---- MODULE Spec2Model ----
(***************************************************************************)
(* A model of the edurouter routing engine (src/src/engine.rs,             *)
(* src/src/cache.rs, src/src/stickiness.rs, src/src/health.rs,             *)
(* src/src/api.rs).                                                        *)
(*                                                                         *)
(* Conventions.                                                            *)
(*   - Option<T> is a sequence: None is <<>>, Some(x) is <<x>>.            *)
(*   - Vec indices are 0-based as in the source: element i of a Vec v is   *)
(*     v[i + 1] of the sequence that models it.                            *)
(*   - f32 quantities are fixed point: ratios, rates and weights are in    *)
(*     thousandths (x1000), a score is in millionths (weight x fit).       *)
(*   - Time is one clock, in ticks; Instant::now() and Utc::now() read it. *)
(*   - The 64-bit hashes (AHasher, hash_string, hash_alias) are modelled   *)
(*     as the tuple of what they hash: equal inputs, equal fingerprints,   *)
(*     and no collisions.                                                  *)
(*   - A stickiness token is its signed claims: HMAC makes the tokens a    *)
(*     client can present exactly the ones the engine issued.              *)
(*   - No embedding runtime is configured (RouterEngine.embedding is      *)
(*     None): canonical_match is None and its hash in the key is 0.       *)
(***************************************************************************)
EXTENDS Integers, Sequences, FiniteSets, TLC

VARIABLES
    now,        \* the clock (Instant::now / Utc::now)
    policy,     \* RouterEngine.policy   : ArcSwap<CompiledPolicy>
    catalog,    \* RouterEngine.catalog  : ArcSwap<CompiledCatalog>
    overlays,   \* RouterEngine.overlays : ArcSwap<OverlayStore>
    cache,      \* RouterEngine.cache    : PlanCache (key -> CachedPlan)
    health,     \* RouterEngine.health   : HealthStore (model id -> HealthStats)
    metrics,    \* RouterEngine.metrics  : RouterMetrics
    wk,         \* the plan calls in flight, one per worker
    adm,        \* the reload calls in flight, one per admin caller
    held,       \* the plan_token the client holds (Option of a token)
    hist,       \* history: counters and what the properties look back at
    probe,      \* the last direct call of a component and its result
    rate_limiter, \* RouterEngine.rate_limiter : RateLimiter
    chk         \* the rate-limit checks in flight, and their history

vars == <<now, policy, catalog, overlays, cache, health, metrics, wk, adm, held, hist, probe, rate_limiter, chk>>

None == <<>>
Some(x) == <<x>>
IsSome(o) == o # <<>>
Unwrap(o) == o[1]

Min(a, b) == IF a < b THEN a ELSE b
Max(a, b) == IF a > b THEN a ELSE b

(***************************************************************************)
(* Bounds of the model.                                                    *)
(***************************************************************************)
MaxTime == 2
MaxCacheTime == 5
MaxCalls == 2
MaxSeqCalls == 4
MaxTimedCalls == 3
MaxReloads == 1
MaxFeedback == 1
MaxTierCalls == 2

Workers == {1, 2}
Admins == {1}

(***************************************************************************)
(* Program constants.                                                      *)
(***************************************************************************)
DEFAULT_PROMPT_TOKENS == 512
DEFAULT_OUTPUT_TOKENS == 256
MIN_CONTEXT_TOKENS == 1024

\* RouterConfig.cache_ttl_ms and cache_stale_ms, in ticks.
cache_ttl_ms == 1
cache_stale_ms == 2

(***************************************************************************)
(* Catalog and policy documents the admin endpoints may be given.          *)
(***************************************************************************)
CatalogModel(id, ctx, status, inp, outp, tags, target) ==
    [id |-> id, provider |-> "prov",
     region |-> {},
     modalities |-> {"text"}, context_tokens |-> ctx,
     tools |-> TRUE, json_mode |-> TRUE, structured_output |-> FALSE,
     prompt_cache |-> FALSE,
     input_per_million_micro |-> inp, output_per_million_micro |-> outp,
     cached_per_million_micro |-> None,
     target_p95_ms |-> target, recent_p50_ms |-> None,
     policy_tags |-> tags, status |-> status,
     base_url |-> Some("https://upstream/" \o id)]

MCheap(status) ==
    CatalogModel("m-cheap", 512, status, 200000, 400000, <<"tier:T2">>, 1500)
MPremium(status) ==
    CatalogModel("m-premium", 8192, status, 1500000, 2000000, <<"tier:T1">>, 2500)

CatA == [revision |-> "cat-1",
         models |-> <<MCheap(Some("healthy")), MPremium(None)>>]
CatB == [revision |-> "cat-2",
         models |-> <<MCheap(Some("offline")), MPremium(Some("healthy"))>>]

\* CatA is the catalog the engine boots with; a reload installs CatB.
CatalogDocs == {CatB}

\* A catalog that lists another model first: m-cheap moves from index 0 to 1
\* and m-premium is gone.
MOther(status) ==
    CatalogModel("m-other", 8192, status, 100000, 100000, <<"tier:T3">>, 1000)

CatShift == [revision |-> "cat-4",
             models |-> <<MOther(Some("healthy")), MCheap(Some("healthy"))>>]

PolicyDoc(rev, cands, turns, window) ==
    [id |-> "edu", revision |-> rev, schema_version |-> "1.1",
     weights |-> [cost |-> 400, latency |-> 300, health |-> 200,
                  context |-> 100, tier_bonus |-> 50],
     defaults |-> [cost_norm_micro |-> 5000, latency_ms |-> 2000,
                   timeout_ms |-> 30000, max_output_tokens |-> 256,
                   max_overlay_bytes |-> 16,
                   stickiness |-> [window_ms |-> window, max_turns |-> turns]],
     escalations |-> [token_len_over |-> Some(8000),
                      uncertainty_regex |-> None,
                      scpi_error_present |-> None,
                      teacher_boost_tier |-> None,
                      fallback_tier |-> Some("t1")],
     aliases |-> [a \in {"edu-general"} |->
                    [candidates |-> cands, require_caps |-> {},
                     allowed_regions |-> {}]],
     overlay_map |-> [a \in {"edu-general"} |-> [r \in {"teacher"} |-> "ov-teacher"]],
     overlay_defaults |-> [r \in {"default"} |-> "ov-default"]]

PolA == PolicyDoc("pol-1", <<"m-cheap", "m-premium", "m-gone">>, 2, 1)
PolB == PolicyDoc("pol-2", <<"m-premium", "m-cheap">>, 0, 0)

\* A policy with every escalation trigger configured.
PolE ==
    [PolicyDoc("pol-e", <<"m-cheap", "m-premium">>, 2, 1) EXCEPT
        !.escalations = [token_len_over |-> Some(700),
                         uncertainty_regex |-> Some("(?i)unsure"),
                         scpi_error_present |-> Some(TRUE),
                         teacher_boost_tier |-> Some("t2"),
                         fallback_tier |-> Some("t1")]]

\* PolA is the policy the engine boots with; a reload installs PolB.
PolicyDocs == {PolB}

\* A policy document that lists a model twice for the alias.
PolDup == PolicyDoc("pol-4", <<"m-cheap", "m-premium", "m-premium">>, 2, 1)

\* A policy document whose revision is the empty string and whose overlay
\* limit is below the length of the teacher overlay.
PolBlank ==
    [PolicyDoc("", <<"m-cheap", "m-premium">>, 0, 0) EXCEPT
        !.defaults.max_overlay_bytes = 4]

\* A policy with two aliases that list the same models.
PolTwo ==
    [PolicyDoc("pol-5", <<"m-cheap", "m-premium">>, 2, 1) EXCEPT
        !.aliases = [a \in {"edu-general", "edu-math"} |->
                       [candidates |-> <<"m-cheap", "m-premium">>,
                        require_caps |-> {}, allowed_regions |-> {}]]]

\* The overlay directory's content: file stem -> file content (its bytes).
OverlayFiles == [f \in {"ov-teacher"} |-> "be brief"]

(***************************************************************************)
(* Bit masks, as sets of flag names.                                       *)
(***************************************************************************)
RegionAll == {"GLOBAL", "EU", "US", "APAC", "EDGE"}

region_from_str(region) ==
    CASE region \in {"eu", "eu-west-1"} -> {"EU"}
      [] region \in {"us", "us-east-1", "useast"} -> {"US"}
      [] region \in {"apac", "ap-southeast-1"} -> {"APAC"}
      [] region = "edge" -> {"EDGE"}
      [] OTHER -> {"GLOBAL"}

caps_from_strings(values) ==
    {f \in {"TEXT", "VISION", "TOOLS", "JSON", "STRUCTURED", "PROMPT_CACHE"} :
        \/ f = "TEXT" /\ "text" \in values
        \/ f = "VISION" /\ "vision" \in values
        \/ f = "TOOLS" /\ "tools" \in values
        \/ f = "JSON" /\ values \cap {"json", "json_mode"} # {}
        \/ f = "STRUCTURED" /\ values \cap {"structured", "structured_output"} # {}
        \/ f = "PROMPT_CACHE" /\ "prompt_cache" \in values}

\* str::to_ascii_uppercase / to_lowercase on the strings the documents use.
to_ascii_uppercase(s) ==
    CASE s = "t1" -> "T1" [] s = "t2" -> "T2" [] s = "t3" -> "T3"
      [] s = "tier:t1" -> "TIER:T1" [] s = "tier:T1" -> "TIER:T1"
      [] s = "tier:t2" -> "TIER:T2" [] s = "tier:T2" -> "TIER:T2"
      [] s = "tier:t3" -> "TIER:T3" [] s = "tier:T3" -> "TIER:T3"
      [] OTHER -> s

eq_ignore_ascii_case(a, b) == to_ascii_uppercase(a) = to_ascii_uppercase(b)

(***************************************************************************)
(* compile_catalog, compile_policy (engine.rs).  A Result is a record      *)
(* [ok, val]; val of an Err is the error.                                  *)
(***************************************************************************)
Ok(v) == [ok |-> TRUE, val |-> Some(v), err |-> ""]
Err(e) == [ok |-> FALSE, val |-> None, err |-> e]

compile_model(model) ==
    [id |-> model.id,
     provider |-> model.provider,
     base_url |-> Unwrap(model.base_url),
     capabilities |->
        caps_from_strings(model.modalities \cap {"text", "vision"})
        \cup (IF model.tools THEN {"TOOLS"} ELSE {})
        \cup (IF model.json_mode THEN {"JSON"} ELSE {})
        \cup (IF model.structured_output THEN {"STRUCTURED"} ELSE {})
        \cup (IF model.prompt_cache THEN {"PROMPT_CACHE"} ELSE {}),
     regions |->
        IF model.region = {} THEN {"GLOBAL"}
        ELSE UNION {region_from_str(r) : r \in model.region},
     context_tokens |-> Max(model.context_tokens, MIN_CONTEXT_TOKENS),
     prices |->
        [input_micro_per_million |-> model.input_per_million_micro,
         output_micro_per_million |-> model.output_per_million_micro,
         cached_micro_per_million |->
            IF IsSome(model.cached_per_million_micro)
            THEN Unwrap(model.cached_per_million_micro)
            ELSE model.input_per_million_micro \div 2],
     target_latency_ms |-> model.target_p95_ms,
     base_latency_ms |->
        IF IsSome(model.recent_p50_ms) THEN Unwrap(model.recent_p50_ms)
        ELSE (model.target_p95_ms * 4) \div 10,
     status |->
        IF model.status = Some("degraded") THEN "Degraded"
        ELSE IF model.status \in {Some("offline"), Some("drained")} THEN "Offline"
        ELSE "Healthy",
     policy_tags |-> model.policy_tags]

compile_catalog(doc) ==
    IF \E i \in 1..Len(doc.models) : doc.models[i].base_url = None
    THEN Err("PLANNING_FAILED")
    ELSE Ok([revision |-> doc.revision,
             models |-> [i \in 1..Len(doc.models) |-> compile_model(doc.models[i])],
             raw |-> doc])

\* CompiledCatalog.index: HashMap<id, usize>; a later duplicate id overwrites.
catalog_index(cat, id) ==
    LET hits == {i \in 1..Len(cat.models) : cat.models[i].id = id}
    IN  IF hits = {} THEN None
        ELSE Some((CHOOSE i \in hits : \A j \in hits : j <= i) - 1)

RECURSIVE resolve_candidates(_, _)
resolve_candidates(ids, cat) ==
    IF ids = <<>> THEN <<>>
    ELSE LET idx == catalog_index(cat, Head(ids))
         IN  (IF IsSome(idx) THEN <<Unwrap(idx)>> ELSE <<>>)
             \o resolve_candidates(Tail(ids), cat)

compile_policy(doc, cat) ==
    Ok([doc |-> doc,
        alias_map |->
           [a \in DOMAIN doc.aliases |->
              [candidates |-> resolve_candidates(doc.aliases[a].candidates, cat),
               require_caps |-> caps_from_strings(doc.aliases[a].require_caps),
               allowed_regions |->
                  IF doc.aliases[a].allowed_regions = {} THEN RegionAll
                  ELSE UNION {region_from_str(r) : r \in doc.aliases[a].allowed_regions}]]])

load_overlays(files) == [content |-> files]

(***************************************************************************)
(* Requests.  A RouteRequest is a record of the fields plan() reads.       *)
(***************************************************************************)
BaseRequest ==
    [schema_version |-> "1.1", request_id |-> 0, alias |-> "edu-general",
     api |-> "responses", privacy_mode |-> "features_only",
     content_attestation |-> None,
     caps |-> {}, tools |-> FALSE, json_mode |-> None,
     p95_latency_ms |-> None, budget |-> None,
     prompt_tokens |-> None, max_output_tokens |-> None,
     turns |-> None, summary |-> None,
     role |-> None, region |-> None,
     plan_token |-> None, teacher_boost |-> None,
     scpi_error_present |-> None, freeze_key |-> None]

region_from_request(req) ==
    IF IsSome(req.region) THEN region_from_str(Unwrap(req.region)) ELSE RegionAll

caps_from_request(req) ==
    caps_from_strings(req.caps)
    \cup (IF req.tools THEN {"TOOLS"} ELSE {})
    \cup (IF req.json_mode = Some(TRUE) THEN {"JSON"} ELSE {})
    \cup {"TEXT"}

bucket_tokens(tokens) ==
    CASE tokens <= 256 -> 0
      [] tokens >= 257 /\ tokens <= 512 -> 1
      [] tokens >= 513 /\ tokens <= 1024 -> 2
      [] tokens >= 1025 /\ tokens <= 2048 -> 3
      [] tokens >= 2049 /\ tokens <= 4096 -> 4
      [] tokens >= 4097 /\ tokens <= 8192 -> 5
      [] tokens >= 8193 /\ tokens <= 16384 -> 6
      [] OTHER -> 7

has_teacher_boost(req) == req.teacher_boost = Some(TRUE)

determine_content_usage(req) ==
    IF IsSome(req.content_attestation) THEN Unwrap(req.content_attestation)
    ELSE CASE req.privacy_mode = "features_only" -> "none"
           [] req.privacy_mode = "summary" -> "summary"
           [] OTHER -> "full"

freeze_key_from_request(req, policy_rev) ==
    IF IsSome(req.freeze_key) THEN Unwrap(req.freeze_key)
    ELSE "frz_" \o policy_rev

\* The uncertainty regex of the documents matches the summaries that hold
\* the word "unsure"; a summary is modelled by whether it does.
regex_is_match(re, summary) == summary = "unsure"

\* determine_escalation looking at the prompt length before teacher_boost.
determine_escalation_by_length(req, pol, in_tokens, teacher_boost) ==
    LET fallback == to_ascii_uppercase(
                       IF IsSome(pol.escalations.fallback_tier)
                       THEN Unwrap(pol.escalations.fallback_tier) ELSE "T3")
    IN  IF IsSome(pol.escalations.token_len_over)
           /\ in_tokens > Unwrap(pol.escalations.token_len_over)
        THEN <<Some(fallback), Some("complexity")>>
        ELSE IF teacher_boost
        THEN <<Some(to_ascii_uppercase(
                       IF IsSome(pol.escalations.teacher_boost_tier)
                       THEN Unwrap(pol.escalations.teacher_boost_tier)
                       ELSE fallback)),
               Some("teacher_boost")>>
        ELSE IF IsSome(pol.escalations.uncertainty_regex) /\ IsSome(req.summary)
                /\ regex_is_match(Unwrap(pol.escalations.uncertainty_regex),
                                  Unwrap(req.summary))
        THEN <<Some(fallback), Some("uncertainty")>>
        ELSE IF pol.escalations.scpi_error_present = Some(TRUE)
                /\ req.scpi_error_present = Some(TRUE)
        THEN <<Some(fallback), Some("policy_lock")>>
        ELSE <<None, None>>

determine_escalation(req, pol, in_tokens, teacher_boost) ==
    LET fallback == to_ascii_uppercase(
                       IF IsSome(pol.escalations.fallback_tier)
                       THEN Unwrap(pol.escalations.fallback_tier) ELSE "T3")
    IN  IF teacher_boost
        THEN <<Some(to_ascii_uppercase(
                       IF IsSome(pol.escalations.teacher_boost_tier)
                       THEN Unwrap(pol.escalations.teacher_boost_tier)
                       ELSE fallback)),
               Some("teacher_boost")>>
        ELSE IF IsSome(pol.escalations.token_len_over)
                /\ in_tokens > Unwrap(pol.escalations.token_len_over)
        THEN <<Some(fallback), Some("complexity")>>
        ELSE IF IsSome(pol.escalations.uncertainty_regex) /\ IsSome(req.summary)
                /\ regex_is_match(Unwrap(pol.escalations.uncertainty_regex),
                                  Unwrap(req.summary))
        THEN <<Some(fallback), Some("uncertainty")>>
        ELSE IF pol.escalations.scpi_error_present = Some(TRUE)
                /\ req.scpi_error_present = Some(TRUE)
        THEN <<Some(fallback), Some("policy_lock")>>
        ELSE <<None, None>>

\* str::len of the overlay contents the model uses.
str_len(s) == CASE s = "be brief" -> 8 [] s = "" -> 0 [] OTHER -> 32

\* resolve_overlay without the size limit.
resolve_overlay_unlimited(req, pol, ov, max_overlay_bytes) ==
    LET role == IF IsSome(req.role) THEN Unwrap(req.role) ELSE "default"
        id == IF req.alias \in DOMAIN pol.overlay_map
                 /\ role \in DOMAIN pol.overlay_map[req.alias]
              THEN pol.overlay_map[req.alias][role]
              ELSE IF role \in DOMAIN pol.overlay_defaults
              THEN pol.overlay_defaults[role]
              ELSE ""
        found == id \in DOMAIN ov.content
    IN  Ok([system_overlay |-> IF found THEN Some(ov.content[id]) ELSE None,
            overlay_fingerprint |->
               IF found THEN Some("sha256:" \o ov.content[id])
               ELSE IF id = "" THEN None ELSE Some("missing:" \o id),
            overlay_size_bytes |->
               Some(IF found THEN str_len(ov.content[id]) ELSE 0),
            max_overlay_bytes |-> Some(max_overlay_bytes)])

resolve_overlay(req, pol, ov, max_overlay_bytes) ==
    LET role == IF IsSome(req.role) THEN Unwrap(req.role) ELSE "default"
        overlay_id ==
            IF req.alias \in DOMAIN pol.overlay_map
               /\ role \in DOMAIN pol.overlay_map[req.alias]
            THEN Some(pol.overlay_map[req.alias][role])
            ELSE IF role \in DOMAIN pol.overlay_defaults
            THEN Some(pol.overlay_defaults[role])
            ELSE None
        block == [system_overlay |-> None, overlay_fingerprint |-> None,
                  overlay_size_bytes |-> Some(0),
                  max_overlay_bytes |-> Some(max_overlay_bytes)]
    IN  IF overlay_id = None THEN Ok(block)
        ELSE LET id == Unwrap(overlay_id)
             IN  IF id \in DOMAIN ov.content
                 THEN LET content == ov.content[id]
                          size == str_len(content)
                      IN  IF size > max_overlay_bytes THEN Err("POLICY_DENY")
                          ELSE Ok([block EXCEPT
                                     !.system_overlay = Some(content),
                                     !.overlay_fingerprint = Some("sha256:" \o content),
                                     !.overlay_size_bytes = Some(size)])
                 ELSE Ok([block EXCEPT
                            !.overlay_fingerprint = Some("missing:" \o id)])

(***************************************************************************)
(* HealthStore (health.rs).  err_rate is in thousandths.                   *)
(***************************************************************************)
HealthStatsDefault ==
    [p50_ms |-> 700, p95_ms |-> 2100, err_rate |-> 10, tokens_per_sec |-> 300]

snapshot(h, model_id) ==
    IF model_id \in DOMAIN h THEN h[model_id] ELSE HealthStatsDefault

\* f32 division and multiplication round to the nearest value, ties to
\* even: a / b on the model's grid, for b > 0.
round_div(a, b) ==
    LET q == a \div b
        r == a % b
    IN  IF 2 * r > b THEN q + 1
        ELSE IF 2 * r < b THEN q
        ELSE IF q % 2 = 0 THEN q ELSE q + 1

\* blend with the product rounded down instead of to the nearest value.
blend_floor(prev, new, alpha) ==
    prev + ((new - prev) * Max(0, Min(alpha, 1000))) \div 1000

\* prev + (new - prev) * alpha, alpha in thousandths and clamped to [0, 1].
blend(prev, new, alpha) ==
    prev + round_div((new - prev) * Max(0, Min(alpha, 1000)), 1000)

health_update(h, fb) ==
    LET entry == snapshot(h, fb.model_id)
        latency == fb.duration_ms
        err == IF fb.success THEN 0 ELSE 1000
        tps == IF IsSome(fb.usage) /\ fb.duration_ms > 0
               THEN blend(entry.tokens_per_sec,
                          round_div(Unwrap(fb.usage) * 1000, fb.duration_ms), 200)
               ELSE entry.tokens_per_sec
        next == [p50_ms |-> blend(entry.p50_ms, latency, 200),
                 p95_ms |-> blend(entry.p95_ms, round_div(latency * 13, 10), 100),
                 err_rate |-> blend(entry.err_rate, err, 100),
                 tokens_per_sec |-> tps]
    IN  [m \in DOMAIN h \cup {fb.model_id} |->
            IF m = fb.model_id THEN next ELSE h[m]]

(***************************************************************************)
(* Estimates and score (engine.rs).                                        *)
(***************************************************************************)
estimate_cost_micro(model, in_tokens, out_tokens, use_prompt_cache) ==
    LET cached_tokens == IF use_prompt_cache THEN (in_tokens * 4 + 5) \div 10 ELSE 0
        normal_tokens == IF use_prompt_cache
                         THEN Max(in_tokens - cached_tokens, 0) ELSE in_tokens
        cached_cost == (cached_tokens * model.prices.cached_micro_per_million) \div 1000000
        normal_cost == (normal_tokens * model.prices.input_micro_per_million) \div 1000000
        out_cost == (out_tokens * model.prices.output_micro_per_million) \div 1000000
    IN  cached_cost + normal_cost + out_cost

\* round(min(base + (in + out) / throughput * 1000, target.max(1) * 1.5))
estimate_latency(model, hs, in_tokens, out_tokens) ==
    LET throughput == Max(hs.tokens_per_sec, 60)
        base == Max(hs.p50_ms, model.base_latency_ms)
        target == Max(model.target_latency_ms, 1)
        total == in_tokens + out_tokens
    IN  IF 2 * throughput * base + 2000 * total <= 3 * target * throughput
        THEN base + (2000 * total + throughput) \div (2 * throughput)
        ELSE (3 * target + 1) \div 2

has_tag(tags, tag) ==
    \E i \in 1..Len(tags) : eq_ignore_ascii_case(tags[i], tag)

\* The score in millionths: weights and fits are in thousandths.
compute_score(model, hs, factors, pol, boost) ==
    LET defaults == pol.defaults
        weights == pol.weights
        cost_ratio == Min((factors.est_cost_micro * 1000) \div defaults.cost_norm_micro, 1500)
        latency_ratio == Min((factors.est_latency_ms * 1000) \div defaults.latency_ms, 1500)
        fit_cost == 1000 - cost_ratio
        fit_latency == 1000 - latency_ratio
        fit_health == Max(0, Min(1000 - hs.err_rate * 5, 1000))
        fit_context == Min((model.context_tokens * 1000)
                              \div (factors.in_tokens + factors.out_tokens + 32), 1000)
        base == weights.cost * fit_cost + weights.latency * fit_latency
                + weights.health * fit_health + weights.context * fit_context
        has_bonus == boost \/ has_tag(model.policy_tags, "tier:T1")
    IN  base
        + (IF has_bonus THEN weights.tier_bonus * 1000 ELSE 0)
        - (IF model.status = "Degraded" THEN 50000 ELSE 0)

\* A descending sort that puts the later of two equal scores first.
RECURSIVE sort_by_score_unstable(_)
sort_by_score_unstable(s) ==
    IF s = <<>> THEN <<>>
    ELSE LET h == Head(s)
             r == sort_by_score_unstable(Tail(s))
             k == Cardinality({i \in 1..Len(r) : r[i].score >= h.score})
         IN  SubSeq(r, 1, k) \o <<h>> \o SubSeq(r, k + 1, Len(r))

\* Vec::sort_by(|a, b| b.score.partial_cmp(&a.score)): stable, descending.
RECURSIVE sort_by_score(_)
sort_by_score(s) ==
    IF s = <<>> THEN <<>>
    ELSE LET h == Head(s)
             r == sort_by_score(Tail(s))
             k == Cardinality({i \in 1..Len(r) : r[i].score > h.score})
         IN  SubSeq(r, 1, k) \o <<h>> \o SubSeq(r, k + 1, Len(r))

\* One iteration of score_candidates' loop: None when the model is filtered.
score_one(ctx, model) ==
    LET use_prompt_cache ==
            "PROMPT_CACHE" \in model.capabilities
            /\ ((IF IsSome(ctx.req.turns) THEN Unwrap(ctx.req.turns) ELSE 0) > 0
                \/ IsSome(ctx.req.plan_token))
        est_cost_micro ==
            estimate_cost_micro(model, ctx.in_tokens, ctx.out_tokens, use_prompt_cache)
        hs == snapshot(ctx.health, model.id)
        est_latency_ms == estimate_latency(model, hs, ctx.in_tokens, ctx.out_tokens)
    IN  IF ~((ctx.caps_mask \cup ctx.alias.require_caps) \subseteq model.capabilities)
        THEN None
        ELSE IF ctx.alias.allowed_regions \cap ctx.region_mask = {} THEN None
        ELSE IF ctx.region_mask \cap model.regions = {} /\ "GLOBAL" \notin model.regions
        THEN None
        ELSE IF model.context_tokens < ctx.in_tokens + ctx.out_tokens THEN None
        ELSE IF model.status = "Offline" THEN None
        ELSE IF IsSome(ctx.forced_tier)
                /\ ~has_tag(model.policy_tags, Unwrap(ctx.forced_tier))
        THEN None
        ELSE IF IsSome(ctx.req.budget) /\ est_cost_micro > Unwrap(ctx.req.budget)
        THEN None
        ELSE IF IsSome(ctx.req.p95_latency_ms)
                /\ est_latency_ms > Unwrap(ctx.req.p95_latency_ms)
        THEN None
        ELSE Some([model |-> model,
                   score |-> compute_score(model, hs,
                                [est_cost_micro |-> est_cost_micro,
                                 est_latency_ms |-> est_latency_ms,
                                 in_tokens |-> ctx.in_tokens,
                                 out_tokens |-> ctx.out_tokens],
                                ctx.policy, ctx.boost),
                   est_cost_micro |-> est_cost_micro,
                   est_latency_ms |-> est_latency_ms,
                   penalty |-> IF model.status = "Degraded" THEN 100 ELSE 0])

RECURSIVE score_loop(_, _)
score_loop(ctx, idxs) ==
    IF idxs = <<>> THEN <<>>
    ELSE score_one(ctx, ctx.catalog.models[Head(idxs) + 1])
         \o score_loop(ctx, Tail(idxs))

score_candidates(ctx) ==
    IF \E i \in 1..Len(ctx.alias.candidates) :
          ctx.alias.candidates[i] >= Len(ctx.catalog.models)
    THEN Err("INTERNAL_ERROR")
    ELSE Ok(sort_by_score(score_loop(ctx, ctx.alias.candidates)))

choose_primary(candidates, sticky, alias) ==
    LET hits == IF IsSome(sticky) /\ Unwrap(sticky).alias = alias
                THEN {i \in 1..Len(candidates) :
                         candidates[i].model.id = Unwrap(sticky).model_id}
                ELSE {}
    IN  IF hits # {} THEN Some(candidates[CHOOSE i \in hits : \A j \in hits : i <= j])
        ELSE IF candidates # <<>> THEN Some(candidates[1])
        ELSE None

build_fallbacks(candidates, primary) ==
    LET Other(c) == c.model.id # primary.model.id
        rest == SelectSeq(candidates, Other)
    IN  SubSeq(rest, 1, Min(3, Len(rest)))

strip_tier_prefix(tag) ==
    CASE tag = "tier:T1" -> Some("T1")
      [] tag = "tier:T2" -> Some("T2")
      [] tag = "tier:T3" -> Some("T3")
      [] OTHER -> None

plan_tier(tags) ==
    LET hits == {i \in 1..Len(tags) : IsSome(strip_tier_prefix(tags[i]))}
    IN  IF hits = {} THEN None
        ELSE strip_tier_prefix(tags[CHOOSE i \in hits : \A j \in hits : i <= j])

NoStickiness == [plan_token |-> None, max_turns |-> None, expires_at |-> None]

\* route_id is a fresh UUID: the number of the call that computes the plan.
materialize_plan(ctx) ==
    [schema_version |-> ctx.req.schema_version,
     route_id |-> ctx.uuid,
     upstream |-> [base_url |-> ctx.primary.model.base_url,
                   model_id |-> ctx.primary.model.id],
     limits |-> [max_input_tokens |-> Some(ctx.primary.model.context_tokens),
                 max_output_tokens |->
                    Some(Min(ctx.out_tokens, ctx.policy.defaults.max_output_tokens)),
                 timeout_ms |-> Some(ctx.policy.defaults.timeout_ms)],
     prompt_overlays |-> ctx.prompt_overlays,
     hints |-> [tier |-> plan_tier(ctx.primary.model.policy_tags),
                est_cost_micro |-> Some(ctx.primary.est_cost_micro),
                est_latency_ms |-> Some(ctx.primary.est_latency_ms),
                provider |-> Some(ctx.primary.model.provider)],
     fallbacks |-> [i \in 1..Len(ctx.fallbacks) |-> ctx.fallbacks[i].model.id],
     cache |-> [ttl_ms |-> Some(ctx.cache_ttl_ms),
                etag |-> Some(<<ctx.catalog_revision, ctx.policy.revision>>),
                valid_until |-> None,
                freeze_key |-> Some(ctx.freeze_key)],
     stickiness |-> NoStickiness,
     policy_rev |-> ctx.policy.revision,
     content_used |-> ctx.content_used]

(***************************************************************************)
(* StickinessManager (stickiness.rs).  A token is a payload and the MAC of *)
(* a payload under a secret; the MAC is modelled as the pair it hashes, so *)
(* it matches only the payload and the secret it was computed from.        *)
(***************************************************************************)
Secret == "secret"

HmacSha256(secret, payload) == <<secret, payload>>

sign_claims(claims) == [claims |-> claims, mac |-> HmacSha256(Secret, claims)]

issue(tenant, project, alias, model_id, max_turns, ttl_ms, uuid, t) ==
    LET claims == [token_id |-> uuid, tenant |-> tenant, project |-> project,
                   alias |-> alias, model_id |-> model_id,
                   expires_at |-> t + ttl_ms,
                   max_turns |-> max_turns, turn |-> 0]
    IN  <<sign_claims(claims), claims>>

progress_turn(claims, ttl_ms, uuid, t) ==
    LET next == [claims EXCEPT !.turn = Min(claims.turn + 1, 255),
                               !.expires_at = t + ttl_ms,
                               !.token_id = uuid]
    IN  <<sign_claims(next), next>>

\* serde_json::from_slice::<StickinessClaims> succeeds on this payload.
claims_from_slice_ok(payload) ==
    DOMAIN payload = {"token_id", "tenant", "project", "alias", "model_id", "expires_at", "max_turns", "turn"}

\* verify without the signature comparison.
verify_unsigned(token, t) ==
    IF ~claims_from_slice_ok(token.claims) THEN Err("INVALID_APPROVAL")
    ELSE IF token.claims.expires_at < t THEN Err("INVALID_APPROVAL")
    ELSE Ok(token.claims)

verify(token, t) ==
    IF token.mac # HmacSha256(Secret, token.claims) THEN Err("INVALID_APPROVAL")
    ELSE IF ~claims_from_slice_ok(token.claims) THEN Err("INVALID_APPROVAL")
    ELSE IF token.claims.expires_at < t THEN Err("INVALID_APPROVAL")
    ELSE Ok(token.claims)

\* attach_stickiness progressing a matching token whatever its turn.
attach_stickiness_unbounded(pol, req, plan, existing, uuid, t) ==
    LET cfg == pol.defaults.stickiness
        model_id == plan.upstream.model_id
        matching == IF IsSome(existing)
                       /\ Unwrap(existing).alias = req.alias
                       /\ Unwrap(existing).model_id = model_id
                    THEN existing ELSE None
        issued == IF IsSome(matching)
                  THEN progress_turn(Unwrap(matching), cfg.window_ms, uuid, t)
                  ELSE issue(None, None, req.alias, model_id,
                             cfg.max_turns, cfg.window_ms, uuid, t)
    IN  IF cfg.max_turns = 0 \/ cfg.window_ms = 0
        THEN <<[plan EXCEPT !.stickiness = NoStickiness], None>>
        ELSE <<[plan EXCEPT
                  !.stickiness = [plan_token |-> Some(issued[1]),
                                  max_turns |-> Some(cfg.max_turns),
                                  expires_at |-> Some(issued[2].expires_at)],
                  !.cache.valid_until = Some(issued[2].expires_at)],
               Some(issued[2])>>

\* attach_stickiness progressing whatever alias and model the claims name.
attach_stickiness_any(pol, req, plan, existing, uuid, t) ==
    LET cfg == pol.defaults.stickiness
        model_id == plan.upstream.model_id
        issued == IF IsSome(existing)
                     /\ Unwrap(existing).turn + 1 < Unwrap(existing).max_turns
                  THEN progress_turn(Unwrap(existing), cfg.window_ms, uuid, t)
                  ELSE issue(None, None, req.alias, model_id,
                             cfg.max_turns, cfg.window_ms, uuid, t)
    IN  IF cfg.max_turns = 0 \/ cfg.window_ms = 0
        THEN <<[plan EXCEPT !.stickiness = NoStickiness], None>>
        ELSE <<[plan EXCEPT
                  !.stickiness = [plan_token |-> Some(issued[1]),
                                  max_turns |-> Some(cfg.max_turns),
                                  expires_at |-> Some(issued[2].expires_at)],
                  !.cache.valid_until = Some(issued[2].expires_at)],
               Some(issued[2])>>

\* RouterEngine::attach_stickiness: <<plan', Option<claims>>>.
attach_stickiness(pol, req, plan, existing, uuid, t) ==
    LET cfg == pol.defaults.stickiness
        model_id == plan.upstream.model_id
        matching == IF IsSome(existing)
                       /\ Unwrap(existing).alias = req.alias
                       /\ Unwrap(existing).model_id = model_id
                    THEN existing ELSE None
        issued == IF IsSome(matching)
                     /\ Unwrap(matching).turn + 1 < Unwrap(matching).max_turns
                  THEN progress_turn(Unwrap(matching), cfg.window_ms, uuid, t)
                  ELSE issue(None, None, req.alias, model_id,
                             cfg.max_turns, cfg.window_ms, uuid, t)
    IN  IF cfg.max_turns = 0 \/ cfg.window_ms = 0
        THEN <<[plan EXCEPT !.stickiness = NoStickiness], None>>
        ELSE <<[plan EXCEPT
                  !.stickiness = [plan_token |-> Some(issued[1]),
                                  max_turns |-> Some(cfg.max_turns),
                                  expires_at |-> Some(issued[2].expires_at)],
                  !.cache.valid_until = Some(issued[2].expires_at)],
               Some(issued[2])>>

(***************************************************************************)
(* CacheKey and PlanCache (cache.rs).                                      *)
(***************************************************************************)
CacheKey_derive(policy_rev, alias_idx, caps_mask, json_mode, in_bucket, out_bucket, region_mask, boost, plan_token_model, overlay_hash, privacy, api, freeze_hash, canonical_hash) ==
    <<policy_rev, alias_idx, caps_mask, json_mode, in_bucket, out_bucket,
      region_mask, boost, plan_token_model, overlay_hash, privacy, api,
      freeze_hash, canonical_hash>>

PlanCache_new(fresh_ttl_ms, stale_extension_ms) ==
    [fresh_ttl |-> fresh_ttl_ms,
     ttl |-> fresh_ttl_ms + stale_extension_ms,
     inner |-> [k \in {} |-> 0]]

\* moka's time_to_live: an entry is gone once its age reaches ttl.
inner_get(c, key, t) ==
    IF key \in DOMAIN c.inner /\ t - c.inner[key].inserted_at < c.ttl
    THEN Some(c.inner[key]) ELSE None

\* A get that already calls an entry stale when its age equals fresh_ttl.
PlanCache_get_eager(c, key, t) ==
    LET found == inner_get(c, key, t)
    IN  IF found = None THEN None
        ELSE LET entry == Unwrap(found)
                 s1 == IF t - entry.inserted_at >= c.fresh_ttl THEN "stale" ELSE "hit"
                 s2 == IF IsSome(entry.valid_until) /\ Unwrap(entry.valid_until) <= t
                       THEN "stale" ELSE s1
             IN  Some([plan |-> entry.plan, status |-> s2,
                       route_reason |-> entry.route_reason])

PlanCache_get(c, key, t) ==
    LET found == inner_get(c, key, t)
    IN  IF found = None THEN None
        ELSE LET entry == Unwrap(found)
                 s1 == IF t - entry.inserted_at > c.fresh_ttl THEN "stale" ELSE "hit"
                 s2 == IF IsSome(entry.valid_until) /\ Unwrap(entry.valid_until) <= t
                       THEN "stale" ELSE s1
             IN  Some([plan |-> entry.plan, status |-> s2,
                       route_reason |-> entry.route_reason])

PlanCache_insert(c, key, plan, valid_until, route_reason, t) ==
    LET entry == [plan |-> plan, inserted_at |-> t,
                  valid_until |-> valid_until, route_reason |-> route_reason]
    IN  [c EXCEPT !.inner = [k \in DOMAIN c.inner \cup {key} |->
                                IF k = key THEN entry ELSE c.inner[k]]]

PlanCache_clear(c) == [c EXCEPT !.inner = [k \in {} |-> 0]]

\* moka's housekeeping: expired entries are dropped.
PlanCache_expire(c, t) ==
    [c EXCEPT !.inner = [k \in {x \in DOMAIN c.inner :
                                   t - c.inner[x].inserted_at < c.ttl} |->
                            c.inner[k]]]

(***************************************************************************)
(* RouterEngine::plan (engine.rs 201-440), in the steps between which      *)
(* another thread may run: policy.load(); catalog.load() and               *)
(* overlays.load(); the work up to cache.get(); the work up to             *)
(* cache.insert() and the return.                                          *)
(***************************************************************************)
EmptyMap == [k \in {} |-> 0]

(***************************************************************************)
(* RateLimiter (rate.rs).  Token counts are f64 in the code; here they are *)
(* whole multiples of 1/TokenOne of a token, and the clock ticks in        *)
(* seconds.                                                                *)
(***************************************************************************)
TokenOne == 2
rate_limit_burst == 4
rate_limit_refill_per_sec == 1

RateKeys == {"10.0.0.1", "10.0.0.2"}

RateLimiter_new(capacity, refill_per_sec) ==
    [buckets |-> EmptyMap, capacity |-> capacity, refill_per_sec |-> refill_per_sec]

\* Instant::duration_since: zero when `earlier` is the later instant.
duration_since(later, earlier) == IF later > earlier THEN later - earlier ELSE 0

\* The bucket that entry(key).or_insert_with(..) hands to check.
bucket_entry(rl, key, t) ==
    IF key \in DOMAIN rl.buckets THEN rl.buckets[key]
    ELSE [tokens |-> rl.capacity, last_refill |-> t]

\* check that does not clamp the refilled count to the capacity.
RateLimiter_check_unclamped(rl, key, t) ==
    LET entry == bucket_entry(rl, key, t)
        elapsed == duration_since(t, entry.last_refill)
        refilled == IF elapsed > 0
                    THEN [tokens |-> entry.tokens + elapsed * rl.refill_per_sec,
                          last_refill |-> t]
                    ELSE entry
        allowed == refilled.tokens >= TokenOne
        final == IF allowed THEN [refilled EXCEPT !.tokens = @ - TokenOne] ELSE refilled
    IN  [limiter |-> [rl EXCEPT !.buckets =
                        [k \in DOMAIN rl.buckets \cup {key} |->
                            IF k = key THEN final ELSE rl.buckets[k]]],
         allowed |-> allowed]

\* check that refills without moving last_refill.
RateLimiter_check_unmarked(rl, key, t) ==
    LET entry == bucket_entry(rl, key, t)
        elapsed == duration_since(t, entry.last_refill)
        refilled == IF elapsed > 0
                    THEN [tokens |-> Min(entry.tokens + elapsed * rl.refill_per_sec,
                                         rl.capacity),
                          last_refill |-> entry.last_refill]
                    ELSE entry
        allowed == refilled.tokens >= TokenOne
        final == IF allowed THEN [refilled EXCEPT !.tokens = @ - TokenOne] ELSE refilled
    IN  [limiter |-> [rl EXCEPT !.buckets =
                        [k \in DOMAIN rl.buckets \cup {key} |->
                            IF k = key THEN final ELSE rl.buckets[k]]],
         allowed |-> allowed]

\* rate.rs 29-48: what check does once it holds the bucket, `t` being the
\* instant it read at line 28.
RateLimiter_check(rl, key, t) ==
    LET entry == bucket_entry(rl, key, t)
        elapsed == duration_since(t, entry.last_refill)
        refilled == IF elapsed > 0
                    THEN [tokens |-> Min(entry.tokens + elapsed * rl.refill_per_sec,
                                         rl.capacity),
                          last_refill |-> t]
                    ELSE entry
        allowed == refilled.tokens >= TokenOne
        final == IF allowed THEN [refilled EXCEPT !.tokens = @ - TokenOne] ELSE refilled
    IN  [limiter |-> [rl EXCEPT !.buckets =
                        [k \in DOMAIN rl.buckets \cup {key} |->
                            IF k = key THEN final ELSE rl.buckets[k]]],
         allowed |-> allowed]

\* RouterEngine::check_rate_limit
check_rate_limit(allowed) == IF allowed THEN Ok(TRUE) ELSE Err("POLICY_DENY")

IdleWorker ==
    [pc |-> "idle", req |-> BaseRequest, pol |-> None, cat |-> None, ovl |-> None,
     pgen |-> 0, cgen |-> 0, epoch |-> 0, sticky |-> None, key |-> None,
     fp |-> None, resp |-> None]

IdleAdmin == [pc |-> "idle", op |-> "none"]

\* What plan() derives from the request and its snapshots (lines 206-272).
plan_inputs(req, pol, cat, sticky) ==
    LET in_tokens == IF IsSome(req.prompt_tokens) THEN Unwrap(req.prompt_tokens)
                     ELSE DEFAULT_PROMPT_TOKENS
        out0 == IF IsSome(req.max_output_tokens) THEN Unwrap(req.max_output_tokens)
                ELSE pol.doc.defaults.max_output_tokens
        boost == has_teacher_boost(req)
        esc == determine_escalation(req, pol.doc, in_tokens, boost)
        idx == IF IsSome(sticky) THEN catalog_index(cat, Unwrap(sticky).model_id)
               ELSE None
    IN  [caps_mask |-> caps_from_request(req),
         json_mode |-> req.json_mode = Some(TRUE),
         in_tokens |-> in_tokens,
         out_tokens |-> IF out0 = 0 THEN DEFAULT_OUTPUT_TOKENS ELSE out0,
         region_mask |-> region_from_request(req),
         boost |-> boost,
         plan_token_model |-> IF IsSome(idx) THEN Unwrap(idx) ELSE 0,
         content_used |-> determine_content_usage(req),
         freeze_key |-> freeze_key_from_request(req, pol.doc.revision),
         forced_tag |-> IF IsSome(esc[1]) THEN Some("tier:" \o Unwrap(esc[1])) ELSE None,
         base_reason |-> esc[2]]

\* Lines 234-245: the claims of a presented token that verifies.
sticky_claims(req, t) ==
    IF IsSome(req.plan_token) /\ verify(Unwrap(req.plan_token), t).ok
    THEN verify(Unwrap(req.plan_token), t).val
    ELSE None

\* A key that leaves the policy revision out.
plan_cache_key_norev(req, pol, inp, overlay_fingerprint) ==
    CacheKey_derive("", req.alias, inp.caps_mask, inp.json_mode,
                    bucket_tokens(inp.in_tokens), bucket_tokens(inp.out_tokens),
                    inp.region_mask, inp.boost, inp.plan_token_model,
                    IF IsSome(overlay_fingerprint) THEN Unwrap(overlay_fingerprint)
                    ELSE "overlay:none",
                    req.privacy_mode, req.api, "frz", 0)

\* A key whose canonical hash covers the request_id as well.
plan_cache_key_by_request(req, pol, inp, overlay_fingerprint) ==
    CacheKey_derive(pol.doc.revision, req.alias, inp.caps_mask, inp.json_mode,
                    bucket_tokens(inp.in_tokens), bucket_tokens(inp.out_tokens),
                    inp.region_mask, inp.boost, inp.plan_token_model,
                    IF IsSome(overlay_fingerprint) THEN Unwrap(overlay_fingerprint)
                    ELSE "overlay:none",
                    req.privacy_mode, req.api, inp.freeze_key, req.request_id)

\* Lines 291-306.
plan_cache_key(req, pol, inp, overlay_fingerprint) ==
    CacheKey_derive(pol.doc.revision, req.alias, inp.caps_mask, inp.json_mode,
                    bucket_tokens(inp.in_tokens), bucket_tokens(inp.out_tokens),
                    inp.region_mask, inp.boost, inp.plan_token_model,
                    IF IsSome(overlay_fingerprint) THEN Unwrap(overlay_fingerprint)
                    ELSE "overlay:none",
                    req.privacy_mode, req.api, inp.freeze_key, 0)

\* The scored candidates without the retry: an empty forced-tier pass stays
\* empty.
plan_candidates_no_retry(req, pol, cat, h, inp) ==
    LET ctx == [req |-> req, alias |-> pol.alias_map[req.alias],
                policy |-> pol.doc, catalog |-> cat, health |-> h,
                caps_mask |-> inp.caps_mask, in_tokens |-> inp.in_tokens,
                out_tokens |-> inp.out_tokens, region_mask |-> inp.region_mask,
                boost |-> inp.boost, forced_tier |-> inp.forced_tag]
    IN  [res |-> score_candidates(ctx), base_reason |-> inp.base_reason]

\* The retry without the forced tier, keeping the escalation reason.
plan_candidates_keep_reason(req, pol, cat, h, inp) ==
    LET ctx == [req |-> req, alias |-> pol.alias_map[req.alias],
                policy |-> pol.doc, catalog |-> cat, health |-> h,
                caps_mask |-> inp.caps_mask, in_tokens |-> inp.in_tokens,
                out_tokens |-> inp.out_tokens, region_mask |-> inp.region_mask,
                boost |-> inp.boost, forced_tier |-> inp.forced_tag]
        first == score_candidates(ctx)
    IN  IF ~first.ok THEN [res |-> first, base_reason |-> inp.base_reason]
        ELSE IF Unwrap(first.val) = <<>> /\ IsSome(inp.forced_tag)
        THEN [res |-> score_candidates([ctx EXCEPT !.forced_tier = None]),
              base_reason |-> inp.base_reason]
        ELSE [res |-> first, base_reason |-> inp.base_reason]

\* Lines 339-370: the scored candidates and the reason left after the retry.
plan_candidates(req, pol, cat, h, inp) ==
    LET ctx == [req |-> req, alias |-> pol.alias_map[req.alias],
                policy |-> pol.doc, catalog |-> cat, health |-> h,
                caps_mask |-> inp.caps_mask, in_tokens |-> inp.in_tokens,
                out_tokens |-> inp.out_tokens, region_mask |-> inp.region_mask,
                boost |-> inp.boost, forced_tier |-> inp.forced_tag]
        first == score_candidates(ctx)
    IN  IF ~first.ok THEN [res |-> first, base_reason |-> inp.base_reason]
        ELSE IF Unwrap(first.val) = <<>> /\ IsSome(inp.forced_tag)
        THEN [res |-> score_candidates([ctx EXCEPT !.forced_tier = None]),
              base_reason |-> None]
        ELSE [res |-> first, base_reason |-> inp.base_reason]

\* The miss path leaving the reason of the escalation in place.
miss_reason_unlocked(sticky, alias, model_id, base_reason) == base_reason

\* Lines 375-381: the reason once the primary is chosen.
miss_reason(sticky, alias, model_id, base_reason) ==
    IF IsSome(sticky) /\ Unwrap(sticky).alias = alias
       /\ Unwrap(sticky).model_id = model_id
    THEN Some("policy_lock") ELSE base_reason

\* Lines 316-319: the reason of a response served from the cache.
hit_reason(sticky, route_reason) ==
    IF IsSome(sticky) THEN Some("policy_lock") ELSE route_reason

\* The response plan, token and all, handed to the cache.
plan_arc_of_response(plan_blueprint, response_plan) == response_plan

\* Lines 408 and 417: the response plan is a clone; the blueprint is cached.
plan_arc(plan_blueprint, response_plan) == plan_blueprint

bump(counters, k) ==
    [x \in DOMAIN counters \cup {k} |->
        IF x = k THEN (IF k \in DOMAIN counters THEN counters[k] + 1 ELSE 1)
        ELSE counters[x]]

\* What an observer of the engine sees at the instant a response is emitted.
Observe(w, plan_model, key, inp, cands) ==
    LET idx == catalog_index(catalog, plan_model)
        m == IF IsSome(idx) THEN Some(catalog.models[Unwrap(idx) + 1]) ELSE None
    IN  [eng_policy_rev |-> policy.doc.revision,
         eng_catalog_rev |-> catalog.revision,
         snap_policy_rev |-> Unwrap(w.pol).doc.revision,
         snap_catalog_rev |-> Unwrap(w.cat).revision,
         pol_current |-> w.pgen = hist.pgen,
         cat_current |-> w.cgen = hist.cgen,
         quiet |-> \A a \in Admins : adm[a].pc = "idle",
         cur_status |-> IF IsSome(m) THEN Some(Unwrap(m).status) ELSE None,
         cur_context |-> IF IsSome(m) THEN Some(Unwrap(m).context_tokens) ELSE None,
         in_tokens |-> inp.in_tokens,
         out_tokens |-> inp.out_tokens,
         key |-> key,
         prev_status |-> IF key \in DOMAIN hist.reported THEN hist.reported[key]
                         ELSE "none",
         after_reload |-> /\ hist.reloads_done > 0
                          /\ w.epoch = hist.reloads_done,
         first_after_reload |-> /\ hist.reloads_done > 0
                                /\ w.epoch = hist.reloads_done
                                /\ key \notin hist.fetched,
         sticky |-> w.sticky,
         eligible |-> IF cands.ok THEN {Unwrap(cands.val)[i].model.id :
                                          i \in 1..Len(Unwrap(cands.val))}
                      ELSE {},
         top |-> IF cands.ok /\ Unwrap(cands.val) # <<>>
                 THEN Some(Unwrap(cands.val)[1].model.id) ELSE None,
         lock_run |->
            IF /\ IsSome(w.sticky)
               /\ Unwrap(w.sticky).alias = w.req.alias
               /\ Unwrap(w.sticky).model_id = plan_model
               /\ cands.ok /\ Unwrap(cands.val) # <<>>
               /\ Unwrap(cands.val)[1].model.id # plan_model
               /\ \E i \in 1..Len(Unwrap(cands.val)) :
                      Unwrap(cands.val)[i].model.id = plan_model
            THEN (IF Unwrap(w.sticky).token_id \in DOMAIN hist.runs
                  THEN hist.runs[Unwrap(w.sticky).token_id] ELSE 0) + 1
            ELSE 0]

OkResponse(plan, status, pol_rev, cat_rev, reason, obs) ==
    [kind |-> "ok", code |-> "", plan |-> Some(plan), cache_status |-> status,
     policy_revision |-> pol_rev, catalog_revision |-> cat_rev,
     route_reason |-> reason, obs |-> Some(obs)]

ErrResponse(code) ==
    [kind |-> "err", code |-> code, plan |-> None, cache_status |-> "miss",
     policy_revision |-> "", catalog_revision |-> "",
     route_reason |-> None, obs |-> None]

\* The worker once its call has returned: the response is kept, and the
\* overlay snapshot the call used.
Done(w, resp) ==
    [IdleWorker EXCEPT !.pc = "done", !.req = w.req, !.fp = w.fp,
                       !.ovl = w.ovl, !.resp = Some(resp)]

\* History kept when a call for `key` returns `status`.
Reported(w, key, status, obs) ==
    [hist EXCEPT
       !.runs = [k \in DOMAIN hist.runs \cup {w.req.request_id} |->
                    IF k = w.req.request_id THEN obs.lock_run ELSE hist.runs[k]],
       !.reported = [k \in DOMAIN hist.reported \cup {key} |->
                        IF k = key THEN status ELSE hist.reported[k]],
       !.fetched = IF w.epoch = hist.reloads_done THEN hist.fetched \cup {key}
                   ELSE hist.fetched]

(***************************************************************************)
(* The requests a client may send.                                         *)
(***************************************************************************)
PlanRequests ==
    LET tokens == {None} \cup (IF IsSome(held) THEN {held} ELSE {})
        shapes == {[BaseRequest EXCEPT !.prompt_tokens = Some(600)],
                   [BaseRequest EXCEPT !.prompt_tokens = Some(1000)],
                   [BaseRequest EXCEPT !.prompt_tokens = Some(600),
                                       !.budget = Some(1000)]}
    IN  {[r EXCEPT !.plan_token = t] : r \in shapes, t \in tokens}

\* Requests that set off the escalation triggers of PolE.
TierRequests ==
    LET tokens == {None} \cup (IF IsSome(held) THEN {held} ELSE {})
    IN  {[BaseRequest EXCEPT !.teacher_boost = tb, !.prompt_tokens = Some(pt),
                             !.summary = su, !.plan_token = t] :
            tb \in {None, Some(TRUE)}, pt \in {600, 1000},
            su \in {None, Some("unsure")}, t \in tokens}

\* Identical request fields except request_id.
SameFields(req) == [req EXCEPT !.request_id = 0]

\* engine.rs 202: let policy = self.policy.load();
PlanStartWith(p, limit, requests) ==
    /\ wk[p].pc \in {"idle", "done"}
    /\ hist.calls < limit
    /\ \E r \in requests :
          wk' = [wk EXCEPT ![p] =
                   [IdleWorker EXCEPT !.pc = "loaded_policy",
                                      !.req = [r EXCEPT !.request_id = hist.calls + 1],
                                      !.pol = Some(policy),
                                      !.pgen = hist.pgen,
                                      !.epoch = hist.reloads_done]]
    /\ hist' = [hist EXCEPT !.calls = @ + 1]
    /\ UNCHANGED <<rate_limiter, chk, now, policy, catalog, overlays, cache, health, metrics, adm, held, probe>>

PlanStart(p, limit) == PlanStartWith(p, limit, PlanRequests)

\* engine.rs 203-204: self.catalog.load(); self.overlays.load();
PlanLoadCatalog(p) ==
    /\ wk[p].pc = "loaded_policy"
    /\ wk' = [wk EXCEPT ![p].pc = "loaded",
                        ![p].cat = Some(catalog),
                        ![p].ovl = Some(overlays),
                        ![p].cgen = hist.cgen]
    /\ UNCHANGED <<rate_limiter, chk, now, policy, catalog, overlays, cache, health, metrics, adm, held, hist, probe>>

\* engine.rs 206-337: up to cache.get() and, on a hit, the return.
PlanLookup(p) ==
    /\ wk[p].pc = "loaded"
    /\ LET w == wk[p]
           req == w.req
           pol == Unwrap(w.pol)
           cat == Unwrap(w.cat)
       IN  IF req.alias \notin DOMAIN pol.alias_map
           THEN /\ wk' = [wk EXCEPT ![p] = Done(w, ErrResponse("ALIAS_UNKNOWN"))]
                /\ UNCHANGED <<rate_limiter, chk, metrics, hist>>
           ELSE
           LET sticky == sticky_claims(req, now)
               inp == plan_inputs(req, pol, cat, sticky)
               ov == resolve_overlay(req, pol.doc, Unwrap(w.ovl),
                                     pol.doc.defaults.max_overlay_bytes)
           IN  IF ~ov.ok
               THEN /\ wk' = [wk EXCEPT ![p] = Done(w, ErrResponse(ov.err))]
                    /\ UNCHANGED <<rate_limiter, chk, metrics, hist>>
               ELSE
               LET key == plan_cache_key(req, pol, inp, Unwrap(ov.val).overlay_fingerprint)
                   hit == PlanCache_get(cache, key, now)
                   fpkey == SameFields(req)
                   fpcur == [key |-> key, pgen |-> w.pgen, cgen |-> w.cgen,
                             tok_ok |-> IsSome(sticky), at |-> now,
                             rid |-> req.request_id]
                   w1 == [w EXCEPT !.sticky = sticky, !.key = Some(key),
                                   !.fp = Some([cur |-> fpcur,
                                                prev |-> IF fpkey \in DOMAIN hist.fp
                                                         THEN Some(hist.fp[fpkey])
                                                         ELSE None])]
                   hist1 == [hist EXCEPT !.fp = [k \in DOMAIN hist.fp \cup {fpkey} |->
                                                    IF k = fpkey THEN fpcur ELSE hist.fp[k]]]
               IN  IF hit = None
                   THEN /\ wk' = [wk EXCEPT ![p] = [w1 EXCEPT !.pc = "miss"]]
                        /\ hist' = hist1
                        /\ UNCHANGED metrics
                   ELSE
                   LET h == Unwrap(hit)
                       response_plan == attach_stickiness(pol.doc, req, h.plan, sticky,
                                                          req.request_id, now)[1]
                       effective_reason == hit_reason(sticky, h.route_reason)
                       obs == Observe(w1, response_plan.upstream.model_id, key, inp,
                                      plan_candidates(req, pol, cat, health, inp).res)
                   IN  /\ wk' = [wk EXCEPT ![p] =
                                   Done(w1, OkResponse(response_plan, h.status,
                                                       pol.doc.revision, cat.revision,
                                                       effective_reason, obs))]
                       /\ metrics' = [metrics EXCEPT
                                        !.total_requests = bump(@, req.alias),
                                        !.cache_hits = bump(@, req.alias)]
                       /\ hist' = [Reported(w1, key, h.status, obs) EXCEPT !.fp = hist1.fp]
    /\ UNCHANGED <<rate_limiter, chk, now, policy, catalog, overlays, cache, health, adm, held, probe>>

\* engine.rs 339-440: score, choose, materialize, attach, insert, return.
PlanCompute(p) ==
    /\ wk[p].pc = "miss"
    /\ LET w == wk[p]
           req == w.req
           pol == Unwrap(w.pol)
           cat == Unwrap(w.cat)
           key == Unwrap(w.key)
           inp == plan_inputs(req, pol, cat, w.sticky)
           ov == resolve_overlay(req, pol.doc, Unwrap(w.ovl),
                                 pol.doc.defaults.max_overlay_bytes)
           scored == plan_candidates(req, pol, cat, health, inp)
       IN  IF ~scored.res.ok
           THEN /\ wk' = [wk EXCEPT ![p] = Done(w, ErrResponse(scored.res.err))]
                /\ UNCHANGED <<rate_limiter, chk, cache, metrics, hist>>
           ELSE
           LET candidates == Unwrap(scored.res.val)
               chosen == choose_primary(candidates, w.sticky, req.alias)
           IN  IF chosen = None
               THEN /\ wk' = [wk EXCEPT ![p] = Done(w, ErrResponse("PLANNING_FAILED"))]
                    /\ UNCHANGED <<rate_limiter, chk, cache, metrics, hist>>
               ELSE
               LET best == Unwrap(chosen)
                   base_reason == miss_reason(w.sticky, req.alias, best.model.id,
                                              scored.base_reason)
                   plan_blueprint ==
                       materialize_plan(
                          [req |-> req, policy |-> pol.doc,
                           prompt_overlays |-> Unwrap(ov.val),
                           primary |-> best,
                           fallbacks |-> build_fallbacks(candidates, best),
                           out_tokens |-> inp.out_tokens,
                           content_used |-> inp.content_used,
                           cache_ttl_ms |-> cache_ttl_ms,
                           freeze_key |-> inp.freeze_key,
                           catalog_revision |-> cat.revision,
                           uuid |-> req.request_id])
                   attached == attach_stickiness(pol.doc, req, plan_blueprint, w.sticky,
                                                 req.request_id, now)
                   valid_until == IF IsSome(attached[2])
                                  THEN Some(Unwrap(attached[2]).expires_at) ELSE None
                   obs == Observe(w, best.model.id, key, inp, scored.res)
               IN  /\ cache' = PlanCache_insert(cache, key,
                                                plan_arc(plan_blueprint, attached[1]),
                                                valid_until, base_reason, now)
                   /\ metrics' = [metrics EXCEPT
                                    !.model_share = bump(@, best.model.id),
                                    !.total_requests = bump(@, req.alias)]
                   /\ wk' = [wk EXCEPT ![p] =
                               Done(w, OkResponse(attached[1], "miss",
                                                  pol.doc.revision, cat.revision,
                                                  base_reason, obs))]
                   /\ hist' = Reported(w, key, "miss", obs)
    /\ UNCHANGED <<rate_limiter, chk, now, policy, catalog, overlays, health, adm, held, probe>>

\* The client keeps the plan_token of a response for its next request.
ClientTake(p) ==
    /\ wk[p].pc = "done"
    /\ Unwrap(wk[p].resp).kind = "ok"
    /\ LET tok == Unwrap(Unwrap(wk[p].resp).plan).stickiness.plan_token
       IN  /\ IsSome(tok)
           /\ tok # held
           /\ held' = tok
    /\ UNCHANGED <<rate_limiter, chk, now, policy, catalog, overlays, cache, health, metrics, wk, adm, hist, probe>>

(***************************************************************************)
(* reload_policy, reload_catalog (engine.rs 179-193), in the steps between *)
(* which another thread may run: each store, and the cache clear.          *)
(***************************************************************************)
\* engine.rs 180-181
ReloadPolicyStoreFrom(a, docs) ==
    /\ adm[a].pc = "idle"
    /\ hist.reloads < MaxReloads
    /\ \E doc \in docs :
          LET compiled == compile_policy(doc, catalog)
          IN  /\ compiled.ok
              /\ policy' = Unwrap(compiled.val)
    /\ adm' = [adm EXCEPT ![a] = [pc |-> "clear", op |-> "policy"]]
    /\ hist' = [hist EXCEPT !.reloads = @ + 1, !.pgen = @ + 1]
    /\ UNCHANGED <<rate_limiter, chk, now, catalog, overlays, cache, health, metrics, wk, held, probe>>

ReloadPolicyStore(a) == ReloadPolicyStoreFrom(a, PolicyDocs)

\* engine.rs 187-188
ReloadCatalogStoreFrom(a, docs) ==
    /\ adm[a].pc = "idle"
    /\ hist.reloads < MaxReloads
    /\ \E doc \in docs :
          LET compiled == compile_catalog(doc)
          IN  /\ compiled.ok
              /\ catalog' = Unwrap(compiled.val)
    /\ adm' = [adm EXCEPT ![a] = [pc |-> "recompile", op |-> "catalog"]]
    /\ hist' = [hist EXCEPT !.reloads = @ + 1, !.cgen = @ + 1]
    /\ UNCHANGED <<rate_limiter, chk, now, policy, overlays, cache, health, metrics, wk, held, probe>>

ReloadCatalogStore(a) == ReloadCatalogStoreFrom(a, CatalogDocs)

\* engine.rs 189-190
ReloadCatalogRecompile(a) ==
    /\ adm[a].pc = "recompile"
    /\ LET compiled == compile_policy(policy.doc, catalog)
       IN  /\ compiled.ok
           /\ policy' = Unwrap(compiled.val)
    /\ adm' = [adm EXCEPT ![a].pc = "clear"]
    /\ hist' = [hist EXCEPT !.pgen = @ + 1]
    /\ UNCHANGED <<rate_limiter, chk, now, catalog, overlays, cache, health, metrics, wk, held, probe>>

\* engine.rs 182-183 and 191-192: self.cache.clear().await; Ok(())
ReloadClear(a) ==
    /\ adm[a].pc = "clear"
    /\ cache' = PlanCache_clear(cache)
    /\ adm' = [adm EXCEPT ![a] = IdleAdmin]
    /\ hist' = [hist EXCEPT !.reloads_done = @ + 1,
                            !.reported = EmptyMap,
                            !.fetched = {}]
    /\ UNCHANGED <<rate_limiter, chk, now, policy, catalog, overlays, health, metrics, wk, held, probe>>

(***************************************************************************)
(* POST /route/feedback (api.rs 150-158, health.rs 52-68).                 *)
(***************************************************************************)
FeedbackInputs ==
    {[model_id |-> "m-cheap", success |-> FALSE, duration_ms |-> 4000,
      usage |-> Some(100)],
     [model_id |-> "m-premium", success |-> TRUE, duration_ms |-> 200,
      usage |-> None]}

Feedback ==
    /\ hist.feedbacks < MaxFeedback
    /\ \E fb \in FeedbackInputs : health' = health_update(health, fb)
    /\ hist' = [hist EXCEPT !.feedbacks = @ + 1]
    /\ UNCHANGED <<rate_limiter, chk, now, policy, catalog, overlays, cache, metrics, wk, adm, held, probe>>

\* Feedback fed to the store directly: a long run of successful calls that
\* report no tokens for one model (QuietFeedback), a long run of failures
\* for another (FailFeedback), and one of any other kind.
MaxQuiet == 24
MaxFail == 56

QuietFeedback ==
    [model_id |-> "m-cheap", success |-> TRUE, duration_ms |-> 1000, usage |-> Some(0)]

FailFeedback ==
    [model_id |-> "m-premium", success |-> FALSE, duration_ms |-> 0, usage |-> None]

OddFeedback ==
    {[model_id |-> "m-cheap", success |-> ok, duration_ms |-> d, usage |-> u] :
        ok \in {TRUE, FALSE}, d \in {0, 1}, u \in {None, Some(0), Some(1000)}}

FeedbackKind(fb) ==
    IF fb = QuietFeedback THEN "quiet" ELSE IF fb = FailFeedback THEN "fail" ELSE "odd"

FeedbackCount(kind) == IF probe.op = "feedback" THEN probe[kind] ELSE 0

FeedbackLimit(kind) ==
    IF kind = "quiet" THEN MaxQuiet ELSE IF kind = "fail" THEN MaxFail ELSE 1

HealthFeedback ==
    /\ \E fb \in {QuietFeedback, FailFeedback} \cup OddFeedback :
          /\ FeedbackCount(FeedbackKind(fb)) < FeedbackLimit(FeedbackKind(fb))
          /\ health' = health_update(health, fb)
          /\ probe' = [k \in {"op", "last", "quiet", "fail", "odd"} |->
                         IF k = "op" THEN "feedback"
                         ELSE IF k = "last" THEN fb
                         ELSE FeedbackCount(k) + (IF k = FeedbackKind(fb) THEN 1 ELSE 0)]
    /\ UNCHANGED <<rate_limiter, chk, now, policy, catalog, overlays, cache, metrics, wk, adm, held, hist>>

(***************************************************************************)
(* The clock.  Tick also runs the cache's housekeeping, which get() cannot *)
(* tell from its own expiry check; TickLazy leaves it to Housekeep.        *)
(***************************************************************************)
Tick ==
    /\ now < MaxTime
    /\ now' = now + 1
    /\ cache' = PlanCache_expire(cache, now + 1)
    /\ hist' = [hist EXCEPT !.reported =
                  [k \in DOMAIN hist.reported \cap DOMAIN cache'.inner |->
                      hist.reported[k]]]
    /\ UNCHANGED <<rate_limiter, chk, policy, catalog, overlays, health, metrics, wk, adm, held, probe>>

TickLazy ==
    /\ now < MaxCacheTime
    /\ now' = now + 1
    /\ UNCHANGED <<rate_limiter, chk, policy, catalog, overlays, cache, health, metrics, wk, adm, held, hist, probe>>

Housekeep ==
    /\ cache' = PlanCache_expire(cache, now)
    /\ cache' # cache
    /\ UNCHANGED <<rate_limiter, chk, now, policy, catalog, overlays, health, metrics, wk, adm, held, hist, probe>>

(***************************************************************************)
(* Direct calls of PlanCache (cache.rs 85-123), for the cache on its own.  *)
(***************************************************************************)
ProbeKeys == {"k1", "k2"}
ProbeValidUntil == {None} \cup {Some(t) : t \in 1..MaxCacheTime}

NoProbe == [op |-> "none", key |-> "k1", at |-> 0, raw |-> None, out |-> None]

ProbeInsert ==
    /\ \E k \in ProbeKeys, vu \in ProbeValidUntil :
          /\ cache' = PlanCache_insert(cache, k, "plan", vu, None, now)
          /\ probe' = [NoProbe EXCEPT !.op = "insert", !.key = k, !.at = now]
    /\ UNCHANGED <<rate_limiter, chk, now, policy, catalog, overlays, health, metrics, wk, adm, held, hist>>

ProbeGet ==
    /\ \E k \in ProbeKeys :
          probe' = [op |-> "get", key |-> k, at |-> now,
                    raw |-> IF k \in DOMAIN cache.inner THEN Some(cache.inner[k])
                            ELSE None,
                    out |-> PlanCache_get(cache, k, now)]
    /\ UNCHANGED <<rate_limiter, chk, now, policy, catalog, overlays, cache, health, metrics, wk, adm, held, hist>>

ProbeClear ==
    /\ cache.inner # EmptyMap
    /\ cache' = PlanCache_clear(cache)
    /\ probe' = [NoProbe EXCEPT !.op = "clear", !.at = now]
    /\ UNCHANGED <<rate_limiter, chk, now, policy, catalog, overlays, health, metrics, wk, adm, held, hist>>

(***************************************************************************)
(* Direct calls of StickinessManager (stickiness.rs 37-99), and a client   *)
(* that alters the token it holds.  hist.signed is every token the manager *)
(* has signed.                                                             *)
(***************************************************************************)
MaxTokenOps == 3

TokenTtls == {1, 2}
TokenModels == {"m-cheap"}

TokIssue ==
    /\ hist.calls < MaxTokenOps
    /\ \E ttl \in TokenTtls, m \in TokenModels :
          LET r == issue(None, None, "edu-general", m, 3, ttl, hist.calls + 1, now)
          IN  /\ held' = Some(r[1])
              /\ probe' = [op |-> "issue", at |-> now, token |-> r[1],
                           out |-> Ok(r[2]), turn |-> 0]
              /\ hist' = [hist EXCEPT !.calls = @ + 1, !.signed = @ \cup {r[1]}]
    /\ UNCHANGED <<rate_limiter, chk, now, policy, catalog, overlays, cache, health, metrics, wk, adm>>

TokProgress ==
    /\ hist.calls < MaxTokenOps
    /\ IsSome(held)
    /\ verify(Unwrap(held), now).ok
    /\ \E ttl \in TokenTtls :
          LET claims == Unwrap(verify(Unwrap(held), now).val)
              r == progress_turn(claims, ttl, hist.calls + 1, now)
          IN  /\ held' = Some(r[1])
              /\ probe' = [op |-> "progress", at |-> now, token |-> r[1],
                           out |-> Ok(r[2]), turn |-> claims.turn + 1]
              /\ hist' = [hist EXCEPT !.calls = @ + 1, !.signed = @ \cup {r[1]}]
    /\ UNCHANGED <<rate_limiter, chk, now, policy, catalog, overlays, cache, health, metrics, wk, adm>>

\* The tokens a client can make of a signed one without the secret: another
\* payload under the old signature, the payload under another signature or
\* under none (a token cut short), a payload that is no claims object.
Altered(token) ==
    {[token EXCEPT !.claims.model_id = "m-other"],
     [token EXCEPT !.claims.expires_at = @ + 1],
     [token EXCEPT !.claims.turn = 0],
     [token EXCEPT !.mac = HmacSha256("guess", token.claims)],
     [token EXCEPT !.mac = <<>>],
     [token EXCEPT !.claims = [garbage |-> TRUE]]}

\* A payload that is no claims object, signed with the secret.
Malformed == [claims |-> [garbage |-> TRUE], mac |-> HmacSha256(Secret, [garbage |-> TRUE])]

TokTamper ==
    /\ IsSome(held)
    /\ Unwrap(held) \in hist.signed
    /\ \E tok \in Altered(Unwrap(held)) \cup {Malformed} :
          /\ held' = Some(tok)
          /\ probe' = [op |-> "tamper", at |-> now, token |-> tok,
                       out |-> Err(""), turn |-> 0]
    /\ UNCHANGED <<rate_limiter, chk, now, policy, catalog, overlays, cache, health, metrics, wk, adm, hist>>

TokVerify ==
    /\ IsSome(held)
    /\ probe' = [op |-> "verify", at |-> now, token |-> Unwrap(held),
                 out |-> verify(Unwrap(held), now), turn |-> 0]
    /\ UNCHANGED <<rate_limiter, chk, now, policy, catalog, overlays, cache, health, metrics, wk, adm, held, hist>>

(***************************************************************************)
(* Direct calls of determine_escalation (engine.rs 816-873) as plan() makes *)
(* them (lines 206-233, 265-271), over the escalation settings a policy    *)
(* may carry and the request fields the function reads.                    *)
(***************************************************************************)
EscalationLimit == 700

EscalationSettings ==
    [token_len_over : {None, Some(EscalationLimit)},
     uncertainty_regex : {None, Some("(?i)unsure")},
     scpi_error_present : {None, Some(FALSE), Some(TRUE)},
     teacher_boost_tier : {None, Some("t2")},
     fallback_tier : {None, Some("t1")}]

EscalationRequests ==
    {[BaseRequest EXCEPT !.teacher_boost = tb, !.prompt_tokens = pt,
                         !.summary = su, !.scpi_error_present = sc] :
        tb \in {None, Some(FALSE), Some(TRUE)},
        pt \in {None, Some(EscalationLimit), Some(1000)},
        su \in {None, Some("fine"), Some("unsure")},
        sc \in {None, Some(TRUE)}}

\* A request arrives under some escalation settings.
EscAsk ==
    /\ probe.op = "none"
    /\ \E e \in EscalationSettings, r \in EscalationRequests :
          probe' = [op |-> "ask", req |-> r, esc |-> e, in_tokens |-> 0,
                    out |-> <<None, None>>]
    /\ UNCHANGED <<rate_limiter, chk, now, policy, catalog, overlays, cache, health, metrics, wk, adm, held, hist>>

EscProbe ==
    /\ probe.op = "ask"
    /\ LET pol == [policy EXCEPT !.doc.escalations = probe.esc]
           inp == plan_inputs(probe.req, pol, catalog, None)
       IN  probe' = [probe EXCEPT
                       !.op = "escalate",
                       !.in_tokens = inp.in_tokens,
                       !.out = determine_escalation(probe.req, pol.doc,
                                                    inp.in_tokens, inp.boost)]
    /\ UNCHANGED <<rate_limiter, chk, now, policy, catalog, overlays, cache, health, metrics, wk, adm, held, hist>>

(***************************************************************************)
(* check_rate_limit (engine.rs 169-177, rate.rs 27-48) called by several   *)
(* threads.  A call reads the clock (line 28), then obtains the bucket of  *)
(* its key, which DashMap locks until the call returns (lines 29-48).      *)
(* chk.log lists the allowed calls: key, instant read, instant returned.   *)
(***************************************************************************)
MaxChecks == 4
MaxRateTime == 3

IdleCheck == [pc |-> "idle", key |-> "", now |-> 0]

NoCheck == [key |-> "", at |-> 0, before |-> None, after |-> None, others |-> EmptyMap, others_after |-> EmptyMap, out |-> Err("")]

\* Instant::now() moves on.
RateTick ==
    /\ now < MaxRateTime
    /\ now' = now + 1
    /\ UNCHANGED <<policy, catalog, overlays, cache, health, metrics, wk, adm, held, hist, probe, rate_limiter, chk>>

\* rate.rs 28: let now = Instant::now();
RateRead(t) ==
    /\ chk.th[t].pc = "idle"
    /\ chk.calls < MaxChecks
    /\ \E key \in RateKeys :
          chk' = [chk EXCEPT !.th[t] = [pc |-> "read", key |-> key, now |-> now],
                             !.calls = @ + 1]
    /\ UNCHANGED <<now, policy, catalog, overlays, cache, health, metrics, wk, adm, held, hist, probe, rate_limiter>>

\* rate.rs 29-48 and engine.rs 170-176
RateApply(t) ==
    /\ chk.th[t].pc = "read"
    /\ LET c == chk.th[t]
           r == RateLimiter_check(rate_limiter, c.key, c.now)
           rest(rl) == [k \in DOMAIN rl.buckets \ {c.key} |-> rl.buckets[k]]
       IN  /\ rate_limiter' = r.limiter
           /\ chk' = [chk EXCEPT
                        !.th[t] = IdleCheck,
                        !.log = IF r.allowed
                                THEN Append(@, [key |-> c.key, read |-> c.now, done |-> now])
                                ELSE @,
                        !.last = [key |-> c.key, at |-> c.now,
                                  before |-> IF c.key \in DOMAIN rate_limiter.buckets
                                             THEN Some(rate_limiter.buckets[c.key])
                                             ELSE None,
                                  after |-> Some(r.limiter.buckets[c.key]),
                                  others |-> rest(rate_limiter),
                                  others_after |-> rest(r.limiter),
                                  out |-> check_rate_limit(r.allowed)]]
    /\ UNCHANGED <<now, policy, catalog, overlays, cache, health, metrics, wk, adm, held, hist, probe>>

(***************************************************************************)
(* HealthStore called by several threads (health.rs 45-68).  update()      *)
(* holds the DashMap entry guard from entry() to the end of the function   *)
(* and writes the fields one by one; snapshot() clones under get().        *)
(* probe.order lists the feedback in the order the guards were taken.      *)
(***************************************************************************)
MaxBlends == 3

BlendInputs ==
    {[model_id |-> "m-cheap", success |-> TRUE, duration_ms |-> 1000, usage |-> Some(100)],
     [model_id |-> "m-cheap", success |-> FALSE, duration_ms |-> 200, usage |-> None],
     [model_id |-> "m-premium", success |-> FALSE, duration_ms |-> 0, usage |-> Some(7)]}

IdleBlend == [pc |-> "idle", fb |-> QuietFeedback]

NoBlend ==
    [op |-> "blend", th |-> [t \in Workers |-> IdleBlend],
     guard |-> [m \in {"m-cheap", "m-premium"} |-> 0], order |-> <<>>, snap |-> None]

Blend == IF probe.op = "blend" THEN probe ELSE NoBlend

\* The entry can be locked: no other guard on it is alive.
entry_unlocked_always(guard, model_id) == TRUE

entry_unlocked(guard, model_id) == guard[model_id] = 0

\* entry(model_id).or_default(): takes the guard, inserting the default.
UpdEntry(t) ==
    /\ Blend.th[t].pc = "idle"
    /\ Len(Blend.order) < MaxBlends
    /\ \E fb \in BlendInputs :
          /\ entry_unlocked(Blend.guard, fb.model_id)
          /\ health' = [m \in DOMAIN health \cup {fb.model_id} |-> snapshot(health, m)]
          /\ probe' = [Blend EXCEPT !.th[t] = [pc |-> "p50", fb |-> fb],
                                    !.guard[fb.model_id] = t,
                                    !.order = Append(@, fb)]
    /\ UNCHANGED <<rate_limiter, chk, now, policy, catalog, overlays, cache, metrics, wk, adm, held, hist>>

\* One assignment to a field of the entry.
UpdBlend(t) ==
    LET fb == Blend.th[t].fb
        m == fb.model_id
        pc == Blend.th[t].pc
    IN  /\ pc \in {"p50", "p95", "err", "tps"}
        /\ health' =
             IF pc = "p50"
             THEN [health EXCEPT ![m].p50_ms = blend(@, fb.duration_ms, 200)]
             ELSE IF pc = "p95"
             THEN [health EXCEPT ![m].p95_ms =
                      blend(@, round_div(fb.duration_ms * 13, 10), 100)]
             ELSE IF pc = "err"
             THEN [health EXCEPT ![m].err_rate =
                      blend(@, IF fb.success THEN 0 ELSE 1000, 100)]
             ELSE IF IsSome(fb.usage) /\ fb.duration_ms > 0
             THEN [health EXCEPT ![m].tokens_per_sec =
                      blend(@, round_div(Unwrap(fb.usage) * 1000, fb.duration_ms), 200)]
             ELSE health
        /\ probe' = [Blend EXCEPT !.th[t].pc =
                        IF pc = "p50" THEN "p95" ELSE IF pc = "p95" THEN "err"
                        ELSE IF pc = "err" THEN "tps" ELSE "stamp"]
        /\ UNCHANGED <<rate_limiter, chk, now, policy, catalog, overlays, cache, metrics, wk, adm, held, hist>>

\* last_update is written and the guard dropped at the end of update().
UpdRelease(t) ==
    /\ Blend.th[t].pc = "stamp"
    /\ probe' = [Blend EXCEPT !.th[t] = IdleBlend,
                              !.guard[Blend.th[t].fb.model_id] = 0]
    /\ UNCHANGED <<rate_limiter, chk, now, policy, catalog, overlays, cache, health, metrics, wk, adm, held, hist>>

\* snapshot(model_id) by a thread that is not inside update().
HealthSnapshot(t) ==
    /\ Blend.th[t].pc = "idle"
    /\ \E m \in {"m-cheap", "m-premium"} :
          /\ entry_unlocked(Blend.guard, m)
          /\ probe' = [Blend EXCEPT !.snap =
                          Some([model_id |-> m, val |-> snapshot(health, m),
                                seen |-> Len(Blend.order)])]
    /\ UNCHANGED <<rate_limiter, chk, now, policy, catalog, overlays, cache, health, metrics, wk, adm, held, hist>>

(***************************************************************************)
(* A reload whose document does not compile (engine.rs 186-187, 525-539):  *)
(* compile_catalog(&doc)? returns the error before anything is stored.     *)
(* compile_policy has no error return, so reload_policy cannot fail here.  *)
(* probe keeps what the engine held before and after the call.             *)
(***************************************************************************)
MaxRejected == 2

\* A catalog whose second model has no metadata.base_url.
CatBad ==
    [revision |-> "cat-3",
     models |-> <<MCheap(Some("healthy")),
                  [MPremium(Some("healthy")) EXCEPT !.base_url = None]>>]

Rejected == IF probe.op = "rejected" THEN probe.count ELSE 0

\* What reload_catalog leaves in self.catalog after its first two lines:
\* every model of the document that compiles, whatever the others do.
catalog_after_reload_lenient(cat, doc) ==
    LET good == SelectSeq(doc.models, LAMBDA m : m.base_url # None)
    IN  [revision |-> doc.revision,
         models |-> [i \in 1..Len(good) |-> compile_model(good[i])],
         raw |-> doc]

\* What reload_catalog leaves in self.catalog after its first two lines.
catalog_after_reload(cat, doc) ==
    LET compiled == compile_catalog(doc)
    IN  IF compiled.ok THEN Unwrap(compiled.val) ELSE cat

ReloadCatalogRejected(a) ==
    /\ adm[a].pc = "idle"
    /\ Rejected < MaxRejected
    /\ \E doc \in {CatBad} :
          /\ ~compile_catalog(doc).ok
          /\ catalog' = catalog_after_reload(catalog, doc)
          /\ probe' = [op |-> "rejected", count |-> Rejected + 1,
                       result |-> compile_catalog(doc),
                       before |-> [policy |-> policy, catalog |-> catalog],
                       after |-> [policy |-> policy, catalog |-> catalog'],
                       pgen |-> hist.pgen, cgen |-> hist.cgen]
    /\ UNCHANGED <<rate_limiter, chk, now, policy, overlays, cache, health, metrics, wk, adm, held, hist>>

(***************************************************************************)
(* POST /admin/overlays/reload (engine.rs 195-199, 687-708): the overlay   *)
(* directory is read again and stored; the plan cache is not cleared.      *)
(* OverlayDirs is what the directory may hold when it is read.             *)
(***************************************************************************)
OverlayDirs ==
    {OverlayFiles,
     [f \in {"ov-teacher"} |-> ""],
     [f \in {"ov-teacher"} |-> "answer briefly, cite the handbook"],
     [f \in {"ov-default"} |-> "answer briefly, cite the handbook"],
     EmptyMap}

ReloadOverlays ==
    /\ \E files \in OverlayDirs : overlays' = load_overlays(files)
    /\ overlays' # overlays
    /\ UNCHANGED <<rate_limiter, chk, now, policy, catalog, cache, health, metrics, wk, adm, held, hist, probe>>

\* Requests of a teacher and of a caller with no role.
OverlayRequests ==
    {[BaseRequest EXCEPT !.prompt_tokens = Some(600), !.role = r] :
        r \in {None, Some("teacher")}}

(***************************************************************************)
(* POST /route/plan as the HTTP client sees it (api.rs 35-148) and the     *)
(* error envelope (errors.rs 22-209).  ApiAdmit is the handler up to the   *)
(* call of engine.plan, ApiPlanStart the first line of plan(), ApiRespond  *)
(* what the handler does with the outcome.  probe keeps the request, the   *)
(* policy revision read at line 45 (hint), the revision plan() loaded      *)
(* (plan_rev) and the HTTP response.                                       *)
(***************************************************************************)
MaxApiCalls == 3

SUPPORTED_SCHEMAS == {"1.0", "1.1"}

ErrorCode_status(code) ==
    CASE code = "ALIAS_UNKNOWN" -> 404
      [] code = "UNSUPPORTED_SCHEMA" -> 409
      [] code = "INVALID_APPROVAL" -> 403
      [] code = "INVALID_REQUEST" -> 400
      [] code = "POLICY_DENY" -> 409
      [] code = "BUDGET_EXCEEDED" -> 402
      [] code = "CATALOG_UNAVAILABLE" -> 503
      [] code = "UPSTREAM_UNAVAILABLE" -> 502
      [] OTHER -> 500

\* Every code with the same hint.
ErrorCode_retry_hint_ms_flat(code) == 0

ErrorCode_retry_hint_ms(code) ==
    IF code \in {"ALIAS_UNKNOWN", "UNSUPPORTED_SCHEMA", "INVALID_APPROVAL",
                 "INVALID_REQUEST", "POLICY_DENY"} THEN 0
    ELSE IF code = "BUDGET_EXCEEDED" THEN 120000
    ELSE 60000

\* ApiError::error_response, the context being that of with_context.
error_response(code, request_id, policy_rev) ==
    [kind |-> "err", status |-> ErrorCode_status(code),
     body |-> [schema_version |-> "1.1", code |-> code,
               request_id |-> IF IsSome(request_id) THEN Unwrap(request_id)
                              ELSE "unknown",
               policy_rev |-> IF IsSome(policy_rev) THEN Unwrap(policy_rev)
                              ELSE "unknown",
               retry_hint_ms |-> ErrorCode_retry_hint_ms(code),
               supported |-> IF code = "UNSUPPORTED_SCHEMA"
                             THEN Some(SUPPORTED_SCHEMAS) ELSE None]]

content_level_str(level) ==
    CASE level = "none" -> "none" [] level = "summary" -> "summary" [] OTHER -> "full"

respond_with_plan(outcome, request_id) ==
    LET plan == Unwrap(outcome.plan)
    IN  [kind |-> "ok", status |-> 200,
         headers |-> [Router_Schema |-> plan.schema_version,
                      Config_Revision |-> outcome.policy_revision,
                      Catalog_Revision |-> outcome.catalog_revision,
                      X_Route_Cache |-> outcome.cache_status,
                      X_Resolved_Model |-> plan.upstream.model_id,
                      X_Route_Id |-> plan.route_id,
                      X_Policy_Rev |-> plan.policy_rev,
                      X_Request_Id |-> request_id,
                      X_Route_Tier |-> plan.hints.tier,
                      X_Route_Why |-> outcome.route_reason,
                      X_Content_Used |-> content_level_str(plan.content_used)],
         body |-> plan]

\* The bodies a client may post: the baseline request and requests that
\* differ from it in one field.  request_id 0 is the empty string.  The
\* teacher's requests may come over a connection with no peer address.
ApiRequests ==
    LET base == [BaseRequest EXCEPT !.prompt_tokens = Some(600), !.request_id = 1]
    IN  {base,
         [base EXCEPT !.schema_version = "1.0"],
         [base EXCEPT !.schema_version = "2.0"],
         [base EXCEPT !.schema_version = ""],
         [base EXCEPT !.request_id = 0],
         [base EXCEPT !.alias = "missing"],
         [base EXCEPT !.role = Some("teacher")],
         [base EXCEPT !.prompt_tokens = Some(9000)],
         [base EXCEPT !.privacy_mode = "summary"],
         [base EXCEPT !.content_attestation = Some("full")]}

NoApi ==
    [op |-> "answered", req |-> BaseRequest, ip |-> None, hint |-> "",
     plan_rev |-> "", cause |-> "none", http |-> None]

Api == IF probe.op \in {"wait", "answered"} THEN probe ELSE NoApi

ApiAdmit(p) ==
    /\ wk[p].pc \in {"idle", "done"}
    /\ Api.op = "answered"
    /\ hist.calls < MaxApiCalls
    /\ \E r \in ApiRequests, ip \in {None, Some("10.0.0.1")} :
          LET request == [r EXCEPT
                            !.schema_version = IF @ = "" THEN "1.1" ELSE @,
                            !.request_id = IF @ = 0 THEN 0 ELSE hist.calls + 1]
              policy_rev_hint == policy.doc.revision
              cause == IF request.schema_version \notin SUPPORTED_SCHEMAS THEN "schema"
                       ELSE IF request.request_id = 0 THEN "request_id"
                       ELSE IF IsSome(ip)
                               /\ ~RateLimiter_check(rate_limiter, Unwrap(ip), now).allowed
                       THEN "rate"
                       ELSE "none"
              checked == cause \in {"rate", "none"} /\ IsSome(ip)
              http == IF cause = "schema"
                      THEN Some(error_response("UNSUPPORTED_SCHEMA", Some(request.request_id),
                                               Some(policy_rev_hint)))
                      ELSE IF cause = "request_id"
                      THEN Some(error_response("INVALID_REQUEST", Some("unknown"),
                                               Some(policy_rev_hint)))
                      ELSE IF cause = "rate"
                      THEN Some(error_response(check_rate_limit(FALSE).err,
                                               Some(request.request_id),
                                               Some(policy_rev_hint)))
                      ELSE None
          IN  /\ ip = None => r.role = Some("teacher")
              /\ rate_limiter' =
                    IF checked
                    THEN RateLimiter_check(rate_limiter, Unwrap(ip), now).limiter
                    ELSE rate_limiter
              /\ probe' = [op |-> IF cause = "none" THEN "wait" ELSE "answered",
                           req |-> request, ip |-> ip, hint |-> policy_rev_hint,
                           plan_rev |-> "", cause |-> cause, http |-> http]
              /\ wk' = IF cause = "none"
                       THEN [wk EXCEPT ![p] =
                               [IdleWorker EXCEPT !.pc = "admitted", !.req = request]]
                       ELSE [wk EXCEPT ![p] = IdleWorker]
    /\ hist' = [hist EXCEPT !.calls = @ + 1]
    /\ UNCHANGED <<chk, now, policy, catalog, overlays, cache, health, metrics, adm, held>>

\* engine.rs 202, for the request the handler passes on.
ApiPlanStart(p) ==
    /\ wk[p].pc = "admitted"
    /\ wk' = [wk EXCEPT ![p].pc = "loaded_policy",
                        ![p].pol = Some(policy),
                        ![p].pgen = hist.pgen,
                        ![p].epoch = hist.reloads_done]
    /\ probe' = [probe EXCEPT !.plan_rev = policy.doc.revision]
    /\ UNCHANGED <<rate_limiter, chk, now, policy, catalog, overlays, cache, health, metrics, adm, held, hist>>

ApiRespond(p) ==
    /\ Api.op = "wait"
    /\ wk[p].pc = "done"
    /\ LET outcome == Unwrap(wk[p].resp)
       IN  probe' = [Api EXCEPT
                       !.op = "answered",
                       !.http = Some(IF outcome.kind = "ok"
                                     THEN respond_with_plan(outcome, Api.req.request_id)
                                     ELSE error_response(outcome.code,
                                                         Some(Api.req.request_id),
                                                         Some(Api.hint)))]
    /\ UNCHANGED <<rate_limiter, chk, now, policy, catalog, overlays, cache, health, metrics, wk, adm, held, hist>>

(***************************************************************************)
(* GET /catalog/models (api.rs 202-228): one load of the catalog, then the *)
(* comparison of If-None-Match with the two tags of its revision.          *)
(***************************************************************************)
strong_tag(revision) == "\"" \o revision \o "\""

weak_tag(revision) == "W/\"" \o revision \o "\""

\* get_catalog comparing with the strong tag only.
get_catalog_strong_only(cat, if_none_match) ==
    LET doc == cat.raw
        hdrs == [ETag |-> strong_tag(doc.revision),
                 X_Catalog_Weak |-> weak_tag(doc.revision),
                 X_Catalog_Revision |-> doc.revision]
    IN  IF if_none_match = Some(strong_tag(doc.revision))
        THEN [status |-> 304, headers |-> hdrs, body |-> None]
        ELSE [status |-> 200, headers |-> hdrs, body |-> Some(doc)]

get_catalog(cat, if_none_match) ==
    LET doc == cat.raw
        revision == doc.revision
        strong == strong_tag(revision)
        weak == weak_tag(revision)
        hdrs == [ETag |-> strong, X_Catalog_Weak |-> weak,
                 X_Catalog_Revision |-> revision]
    IN  IF IsSome(if_none_match)
           /\ (Unwrap(if_none_match) = strong \/ Unwrap(if_none_match) = weak)
        THEN [status |-> 304, headers |-> hdrs, body |-> None]
        ELSE [status |-> 200, headers |-> hdrs, body |-> Some(doc)]

\* The If-None-Match values a client may send: none, the tags of the
\* revisions the model knows, the bare revision, a list of tags and "*".
IfNoneMatchValues ==
    {None, Some("*"), Some("cat-1"),
     Some(strong_tag("cat-1") \o ", " \o strong_tag("cat-2"))}
    \cup {Some(strong_tag(r)) : r \in {"cat-1", "cat-2", "cat-3", "cat-4"}}
    \cup {Some(weak_tag(r)) : r \in {"cat-1", "cat-2", "cat-3", "cat-4"}}

GetCatalog ==
    /\ \E inm \in IfNoneMatchValues :
          probe' = [op |-> "catalog", if_none_match |-> inm,
                    active |-> catalog, http |-> get_catalog(catalog, inm)]
    /\ UNCHANGED <<rate_limiter, chk, now, policy, catalog, overlays, cache, health, metrics, wk, adm, held, hist>>

(***************************************************************************)
(* score_candidates (engine.rs 883-993) called directly, on catalogs that  *)
(* hold two models of equal price, latency, context and tier, under alias  *)
(* rules that list the models in any order.                                *)
(***************************************************************************)
MTwin(id) ==
    CatalogModel(id, 8192, Some("healthy"), 300000, 300000, <<"tier:T2">>, 1500)

ScoreModels == {MTwin("m-a"), MTwin("m-b"), MPremium(None)}

\* Every way of listing the members of S once each.
Orderings(S) ==
    {s \in [1..Cardinality(S) -> S] : \A i, j \in 1..Cardinality(S) : i # j => s[i] # s[j]}

ScoreCatalogs == {[revision |-> "cat-5", models |-> ms] : ms \in Orderings(ScoreModels)}

ScoreCandidateLists ==
    UNION {Orderings(ids) : ids \in {S \in SUBSET {"m-a", "m-b", "m-premium"} :
                                        Cardinality(S) >= 2}}

ScoreRequests ==
    {[BaseRequest EXCEPT !.prompt_tokens = Some(pt)] : pt \in {600, 1000}}

\* A request arrives under some catalog and some alias rule.
ScoreAsk ==
    /\ probe.op \in {"none", "scored"}
    /\ \E doc \in ScoreCatalogs, ids \in ScoreCandidateLists, r \in ScoreRequests :
          probe' = [op |-> "ask", doc |-> doc, ids |-> ids, req |-> r,
                    catalog |-> None, candidates |-> <<>>, out |-> Err("")]
    /\ UNCHANGED <<rate_limiter, chk, now, policy, catalog, overlays, cache, health, metrics, wk, adm, held, hist>>

\* compile_catalog, compile_policy and score_candidates on what arrived.
ScoreProbe ==
    /\ probe.op = "ask"
    /\ LET cat == Unwrap(compile_catalog(probe.doc).val)
           pol == Unwrap(compile_policy(PolicyDoc("pol-6", probe.ids, 2, 1), cat).val)
           inp == plan_inputs(probe.req, pol, cat, None)
       IN  probe' = [probe EXCEPT
                       !.op = "scored",
                       !.catalog = Some(cat),
                       !.candidates = pol.alias_map[probe.req.alias].candidates,
                       !.out = plan_candidates(probe.req, pol, cat, health, inp).res]
    /\ UNCHANGED <<rate_limiter, chk, now, policy, catalog, overlays, cache, health, metrics, wk, adm, held, hist>>

(***************************************************************************)
(* reload_policy and reload_catalog (engine.rs 179-193) called at once by  *)
(* two admin callers, in the steps between which the other may run.  The   *)
(* catalog reload is admin caller a's; the policy reload is held in probe: *)
(* its compiled policy until it is stored.                                 *)
(***************************************************************************)
\* engine.rs 180: compile_policy(&doc, &self.catalog.load())?
ReloadPolicyCompile ==
    /\ probe.op = "none"
    /\ \E doc \in PolicyDocs :
          LET compiled == compile_policy(doc, catalog)
          IN  /\ compiled.ok
              /\ probe' = [op |-> "compiled", compiled |-> Unwrap(compiled.val)]
    /\ UNCHANGED <<rate_limiter, chk, now, policy, catalog, overlays, cache, health, metrics, wk, adm, held, hist>>

\* engine.rs 181: self.policy.store(Arc::new(compiled));
ReloadPolicyInstall ==
    /\ probe.op = "compiled"
    /\ policy' = probe.compiled
    /\ probe' = [probe EXCEPT !.op = "stored"]
    /\ hist' = [hist EXCEPT !.pgen = @ + 1]
    /\ UNCHANGED <<rate_limiter, chk, now, catalog, overlays, cache, health, metrics, wk, adm, held>>

\* engine.rs 182-183: self.cache.clear().await; Ok(())
ReloadPolicyClear ==
    /\ probe.op = "stored"
    /\ cache' = PlanCache_clear(cache)
    /\ probe' = [probe EXCEPT !.op = "reloaded"]
    /\ hist' = [hist EXCEPT !.reloads_done = @ + 1,
                            !.reported = EmptyMap,
                            !.fetched = {}]
    /\ UNCHANGED <<rate_limiter, chk, now, policy, catalog, overlays, health, metrics, wk, adm, held>>

\* engine.rs 189: compile_policy(&self.policy.load().doc, &self.catalog.load())?
ReloadCatalogCompilePolicy(a) ==
    /\ adm[a].pc = "recompile"
    /\ LET compiled == compile_policy(policy.doc, catalog)
       IN  /\ compiled.ok
           /\ adm' = [adm EXCEPT ![a] = [pc |-> "store_policy", op |-> "catalog",
                                         compiled |-> Unwrap(compiled.val)]]
    /\ UNCHANGED <<rate_limiter, chk, now, policy, catalog, overlays, cache, health, metrics, wk, held, hist, probe>>

\* engine.rs 190: self.policy.store(Arc::new(compiled_policy));
ReloadCatalogStorePolicy(a) ==
    /\ adm[a].pc = "store_policy"
    /\ policy' = adm[a].compiled
    /\ adm' = [adm EXCEPT ![a] = [pc |-> "clear", op |-> "catalog"]]
    /\ hist' = [hist EXCEPT !.pgen = @ + 1]
    /\ UNCHANGED <<rate_limiter, chk, now, catalog, overlays, cache, health, metrics, wk, held, probe>>

(***************************************************************************)
(* plan() called with what the engine holds as the call begins kept in     *)
(* probe: the plan cache, the metrics counters and the health store.       *)
(***************************************************************************)
\* Requests for a known and for an unknown alias, with prompts that fit a
\* model and that fit none.
FrameRequests ==
    {[BaseRequest EXCEPT !.alias = a, !.role = r, !.prompt_tokens = Some(pt)] :
        a \in {"edu-general", "edu-unknown"}, r \in {None, Some("teacher")},
        pt \in {600, 9000}}

\* engine.rs 202: let policy = self.policy.load();
PlanStartFramed(p, limit) ==
    /\ wk[p].pc \in {"idle", "done"}
    /\ hist.calls < limit
    /\ \E r \in FrameRequests :
          wk' = [wk EXCEPT ![p] =
                   [IdleWorker EXCEPT !.pc = "loaded_policy",
                                      !.req = [r EXCEPT !.request_id = hist.calls + 1],
                                      !.pol = Some(policy),
                                      !.pgen = hist.pgen,
                                      !.epoch = hist.reloads_done]]
    /\ hist' = [hist EXCEPT !.calls = @ + 1]
    /\ probe' = [op |-> "frame", rid |-> hist.calls + 1, cache |-> cache,
                 metrics |-> metrics, health |-> health]
    /\ UNCHANGED <<rate_limiter, chk, now, policy, catalog, overlays, cache, health, metrics, adm, held>>

(***************************************************************************)
(* RouterEngine::bootstrap (engine.rs 135-163) and the specifications.     *)
(***************************************************************************)
Init ==
    /\ now = 0
    /\ catalog = Unwrap(compile_catalog(CatA).val)
    /\ policy = Unwrap(compile_policy(PolA, Unwrap(compile_catalog(CatA).val)).val)
    /\ overlays = load_overlays(OverlayFiles)
    /\ cache = PlanCache_new(cache_ttl_ms, cache_stale_ms)
    /\ health = EmptyMap
    /\ metrics = [total_requests |-> EmptyMap, model_share |-> EmptyMap,
                  cache_hits |-> EmptyMap]
    /\ wk = [p \in Workers |-> IdleWorker]
    /\ adm = [a \in Admins |-> IdleAdmin]
    /\ held = None
    /\ hist = [calls |-> 0, reloads |-> 0, reloads_done |-> 0, feedbacks |-> 0,
               pgen |-> 0, cgen |-> 0, reported |-> EmptyMap, fetched |-> {},
               fp |-> EmptyMap, runs |-> EmptyMap, signed |-> {}]
    /\ probe = NoProbe
    /\ rate_limiter = RateLimiter_new(rate_limit_burst, rate_limit_refill_per_sec)
    /\ chk = [th |-> [t \in Workers |-> IdleCheck], calls |-> 0, log |-> <<>>,
              last |-> NoCheck]

\* The engine booted with the policy PolE.
InitTier ==
    /\ now = 0
    /\ catalog = Unwrap(compile_catalog(CatA).val)
    /\ policy = Unwrap(compile_policy(PolE, Unwrap(compile_catalog(CatA).val)).val)
    /\ overlays = load_overlays(OverlayFiles)
    /\ cache = PlanCache_new(cache_ttl_ms, cache_stale_ms)
    /\ health = EmptyMap
    /\ metrics = [total_requests |-> EmptyMap, model_share |-> EmptyMap,
                  cache_hits |-> EmptyMap]
    /\ wk = [p \in Workers |-> IdleWorker]
    /\ adm = [a \in Admins |-> IdleAdmin]
    /\ held = None
    /\ hist = [calls |-> 0, reloads |-> 0, reloads_done |-> 0, feedbacks |-> 0,
               pgen |-> 0, cgen |-> 0, reported |-> EmptyMap, fetched |-> {},
               fp |-> EmptyMap, runs |-> EmptyMap, signed |-> {}]
    /\ probe = NoProbe
    /\ rate_limiter = RateLimiter_new(rate_limit_burst, rate_limit_refill_per_sec)
    /\ chk = [th |-> [t \in Workers |-> IdleCheck], calls |-> 0, log |-> <<>>,
              last |-> NoCheck]

Reload(a) ==
    \/ ReloadPolicyStore(a)
    \/ ReloadCatalogStore(a)
    \/ ReloadCatalogRecompile(a)
    \/ ReloadClear(a)

\* Several workers and an admin caller, all running at once, within one
\* tick of the clock.
Next ==
    \/ \E p \in Workers :
          \/ PlanStart(p, MaxCalls)
          \/ PlanLoadCatalog(p)
          \/ PlanLookup(p)
          \/ PlanCompute(p)
          \/ ClientTake(p)
    \/ \E a \in Admins : Reload(a)

Spec == Init /\ [][Next]_vars

\* One worker (ROUTER_WORKERS = 1) answering requests one after the other,
\* while time passes and feedback arrives.
NextSeq ==
    \/ PlanStart(1, MaxTimedCalls)
    \/ PlanLoadCatalog(1)
    \/ PlanLookup(1)
    \/ PlanCompute(1)
    \/ ClientTake(1)
    \/ Feedback
    \/ Tick

SpecSeq == Init /\ [][NextSeq]_vars

\* One worker answering a longer chain of requests sent back to back.
NextChain ==
    \/ PlanStart(1, MaxSeqCalls)
    \/ PlanLoadCatalog(1)
    \/ PlanLookup(1)
    \/ PlanCompute(1)
    \/ ClientTake(1)

SpecChain == Init /\ [][NextChain]_vars

\* The plan cache driven directly.
NextCache ==
    \/ ProbeInsert
    \/ ProbeGet
    \/ ProbeClear
    \/ TickLazy
    \/ Housekeep

SpecCache == Init /\ [][NextCache]_vars

\* The stickiness manager driven directly.
NextToken ==
    \/ TokIssue
    \/ TokProgress
    \/ TokTamper
    \/ TokVerify
    \/ TickLazy

SpecToken == Init /\ [][NextToken]_vars

\* One worker answering requests that escalate, while time passes.
NextTier ==
    \/ PlanStartWith(1, MaxTierCalls, TierRequests)
    \/ PlanLoadCatalog(1)
    \/ PlanLookup(1)
    \/ PlanCompute(1)
    \/ ClientTake(1)
    \/ Tick

SpecTier == InitTier /\ [][NextTier]_vars

\* The rate limiter called by several threads while time passes.
NextRate ==
    \/ \E t \in Workers :
          \/ RateRead(t)
          \/ RateApply(t)
    \/ RateTick

SpecRate == Init /\ [][NextRate]_vars

\* The health store fed directly.
NextHealth == HealthFeedback

SpecHealth == Init /\ [][NextHealth]_vars

\* determine_escalation called directly.
NextEsc ==
    \/ EscAsk
    \/ EscProbe

SpecEsc == Init /\ [][NextEsc]_vars

\* The health store updated and read by several threads at once.
NextBlend ==
    \E t \in Workers :
       \/ UpdEntry(t)
       \/ UpdBlend(t)
       \/ UpdRelease(t)
       \/ HealthSnapshot(t)

SpecBlend == Init /\ [][NextBlend]_vars

\* One worker answering requests while an admin caller reloads, with
\* documents that compile and with one that does not.
NextReload ==
    \/ PlanStart(1, MaxCalls)
    \/ PlanLoadCatalog(1)
    \/ PlanLookup(1)
    \/ PlanCompute(1)
    \/ ClientTake(1)
    \/ \E a \in Admins :
          \/ ReloadPolicyStoreFrom(a, PolicyDocs \cup {PolDup})
          \/ ReloadCatalogStoreFrom(a, CatalogDocs \cup {CatShift})
          \/ ReloadCatalogRecompile(a)
          \/ ReloadClear(a)
          \/ ReloadCatalogRejected(a)

SpecReload == Init /\ [][NextReload]_vars

\* One worker answering requests while the overlay directory changes and is
\* reloaded.
NextOverlay ==
    \/ PlanStartWith(1, MaxTimedCalls, OverlayRequests)
    \/ PlanLoadCatalog(1)
    \/ PlanLookup(1)
    \/ PlanCompute(1)
    \/ ClientTake(1)
    \/ ReloadOverlays

SpecOverlay == Init /\ [][NextOverlay]_vars

\* One HTTP client posting requests one after the other, while an admin
\* caller may install the policy PolBlank.
NextApi ==
    \/ ApiAdmit(1)
    \/ ApiPlanStart(1)
    \/ PlanLoadCatalog(1)
    \/ PlanLookup(1)
    \/ PlanCompute(1)
    \/ ApiRespond(1)
    \/ \E a \in Admins :
          \/ ReloadPolicyStoreFrom(a, {PolBlank})
          \/ ReloadClear(a)

SpecApi == Init /\ [][NextApi]_vars

\* GET /catalog/models while an admin caller reloads the catalog.
NextCatalog ==
    \/ GetCatalog
    \/ \E a \in Admins :
          \/ ReloadCatalogStoreFrom(a, CatalogDocs \cup {CatShift})
          \/ ReloadCatalogRecompile(a)
          \/ ReloadClear(a)

SpecCatalog == Init /\ [][NextCatalog]_vars

\* Requests for either alias of PolTwo, with or without the token the client
\* holds.
AliasRequests ==
    LET tokens == {None} \cup (IF IsSome(held) THEN {held} ELSE {})
    IN  {[BaseRequest EXCEPT !.alias = a, !.prompt_tokens = Some(pt),
                             !.plan_token = t] :
            a \in {"edu-general", "edu-math"}, pt \in {600, 1000}, t \in tokens}

\* The engine booted with the policy PolTwo.
InitAlias ==
    /\ now = 0
    /\ catalog = Unwrap(compile_catalog(CatA).val)
    /\ policy = Unwrap(compile_policy(PolTwo, Unwrap(compile_catalog(CatA).val)).val)
    /\ overlays = load_overlays(OverlayFiles)
    /\ cache = PlanCache_new(cache_ttl_ms, cache_stale_ms)
    /\ health = EmptyMap
    /\ metrics = [total_requests |-> EmptyMap, model_share |-> EmptyMap,
                  cache_hits |-> EmptyMap]
    /\ wk = [p \in Workers |-> IdleWorker]
    /\ adm = [a \in Admins |-> IdleAdmin]
    /\ held = None
    /\ hist = [calls |-> 0, reloads |-> 0, reloads_done |-> 0, feedbacks |-> 0,
               pgen |-> 0, cgen |-> 0, reported |-> EmptyMap, fetched |-> {},
               fp |-> EmptyMap, runs |-> EmptyMap, signed |-> {}]
    /\ probe = NoProbe
    /\ rate_limiter = RateLimiter_new(rate_limit_burst, rate_limit_refill_per_sec)
    /\ chk = [th |-> [t \in Workers |-> IdleCheck], calls |-> 0, log |-> <<>>,
              last |-> NoCheck]

\* One worker answering requests for two aliases, the client presenting the
\* token of one alias with requests for either.
NextAlias ==
    \/ PlanStartWith(1, MaxTimedCalls, AliasRequests)
    \/ PlanLoadCatalog(1)
    \/ PlanLookup(1)
    \/ PlanCompute(1)
    \/ ClientTake(1)

SpecAlias == InitAlias /\ [][NextAlias]_vars

\* Requests that force a tier or not, some with a budget no model meets.
RetryRequests ==
    LET tokens == {None} \cup (IF IsSome(held) THEN {held} ELSE {})
    IN  {[BaseRequest EXCEPT !.teacher_boost = tb, !.prompt_tokens = Some(pt),
                             !.budget = bu, !.plan_token = t] :
            tb \in {None, Some(TRUE)}, pt \in {600, 1000},
            bu \in {None, Some(100)}, t \in tokens}

\* One worker under the policy PolE answering requests whose forced tier may
\* have no survivor.
NextRetry ==
    \/ PlanStartWith(1, MaxTierCalls, RetryRequests)
    \/ PlanLoadCatalog(1)
    \/ PlanLookup(1)
    \/ PlanCompute(1)
    \/ ClientTake(1)

SpecRetry == InitTier /\ [][NextRetry]_vars

\* score_candidates called directly.
NextScore ==
    \/ ScoreAsk
    \/ ScoreProbe

SpecScore == Init /\ [][NextScore]_vars

\* One worker answering requests while two admin callers reload at once,
\* one the policy and one the catalog.
NextRace ==
    \/ PlanStartWith(1, MaxCalls, {[BaseRequest EXCEPT !.prompt_tokens = Some(600)]})
    \/ PlanLoadCatalog(1)
    \/ PlanLookup(1)
    \/ PlanCompute(1)
    \/ ReloadPolicyCompile
    \/ ReloadPolicyInstall
    \/ ReloadPolicyClear
    \/ \E a \in Admins :
          \/ ReloadCatalogStoreFrom(a, CatalogDocs \cup {CatShift})
          \/ ReloadCatalogCompilePolicy(a)
          \/ ReloadCatalogStorePolicy(a)
          \/ ReloadClear(a)

SpecRace == Init /\ [][NextRace]_vars

\* One worker answering requests of which some fail, while the overlay
\* directory changes and is reloaded.
NextFrame ==
    \/ PlanStartFramed(1, MaxCalls)
    \/ PlanLoadCatalog(1)
    \/ PlanLookup(1)
    \/ PlanCompute(1)
    \/ ReloadOverlays

SpecFrame == Init /\ [][NextFrame]_vars

(***************************************************************************)
(* Properties.  A worker that holds a successful response also holds what  *)
(* was true of the engine at the instant the response was emitted (obs).   *)
(***************************************************************************)
OkResponders ==
    {p \in Workers : wk[p].pc = "done" /\ Unwrap(wk[p].resp).kind = "ok"}
RespOf(p) == Unwrap(wk[p].resp)
PlanOf(p) == Unwrap(RespOf(p).plan)
ObsOf(p) == Unwrap(RespOf(p).obs)

\* C1: a plan call that started after a reload returned, and answers while
\* no reload is running, never returns a model that the current catalog
\* marks offline.
C1_OfflineNeverSelected ==
    \A p \in OkResponders :
        (ObsOf(p).after_reload /\ ObsOf(p).quiet)
            => ObsOf(p).cur_status # Some("Offline")

\* C2: the model of every returned plan (miss, hit or stale) is in the
\* current catalog and its context_tokens is at least the request's
\* effective prompt_tokens + max_output_tokens.
C2_ModelFitsRequest ==
    \A p \in OkResponders :
        /\ IsSome(ObsOf(p).cur_context)
        /\ Unwrap(ObsOf(p).cur_context) >= ObsOf(p).in_tokens + ObsOf(p).out_tokens

\* C3: the plan returned for a request that carries a budget (miss, hit or
\* stale) has est_cost_micro <= budget.amount_micro.
C3_CostWithinBudget ==
    \A p \in OkResponders :
        IsSome(wk[p].req.budget)
            => /\ IsSome(PlanOf(p).hints.est_cost_micro)
               /\ Unwrap(PlanOf(p).hints.est_cost_micro) <= Unwrap(wk[p].req.budget)

\* C4: when the request's plan_token verifies, its alias is the request's
\* and its model passes the candidate filter for this request, the returned
\* plan's primary model is the token's model, cached responses included.
C4_StickyModelPreferred ==
    \A p \in OkResponders :
        LET o == ObsOf(p)
        IN  (/\ IsSome(o.sticky)
             /\ Unwrap(o.sticky).alias = wk[p].req.alias
             /\ Unwrap(o.sticky).model_id \in o.eligible)
                => PlanOf(p).upstream.model_id = Unwrap(o.sticky).model_id

\* C5: in a chain of requests each presenting the previous response's valid
\* plan_token, the token's model is returned in place of a different
\* top-scored candidate in at most max_turns consecutive requests.
C5_LockBoundedByMaxTurns ==
    \A p \in OkResponders :
        IsSome(ObsOf(p).sticky)
            => ObsOf(p).lock_run <= Unwrap(ObsOf(p).sticky).max_turns

\* C6: once a reload has returned, the first plan call for any fingerprint
\* reports cache status miss.
C6_ReloadForcesMiss ==
    \A p \in OkResponders :
        ObsOf(p).first_after_reload => RespOf(p).cache_status = "miss"

\* C7: per fingerprint, between reloads and evictions, the reported cache
\* statuses follow miss, then hits, then stales: a first report is miss, no
\* miss is reported again, and no hit after a stale.
StatusSteps ==
    {<<"none", "miss">>, <<"miss", "hit">>, <<"miss", "stale">>,
     <<"hit", "hit">>, <<"hit", "stale">>, <<"stale", "stale">>}

C7_StatusMonotone ==
    \A p \in OkResponders :
        <<ObsOf(p).prev_status, RespOf(p).cache_status>> \in StatusSteps

\* C8: PlanCache.get at time t returns hit iff an entry is present with
\* t - insertion <= fresh_ttl and no valid_until at or before t, stale for
\* any other present entry, and miss when no entry is present, which is so
\* for every entry older than fresh_ttl + stale_extension; between fresh_ttl
\* and fresh_ttl + stale_extension an entry is reported stale.
C8_GetStatus ==
    (probe.op = "get") =>
        LET t == probe.at
            raw == probe.raw
            out == probe.out
            age == t - Unwrap(raw).inserted_at
            vu == Unwrap(raw).valid_until
        IN  /\ (raw = None => out = None)
            /\ (raw # None /\ age > cache_ttl_ms + cache_stale_ms => out = None)
            /\ (raw # None /\ age < cache_ttl_ms + cache_stale_ms => out # None)
            /\ (out # None =>
                  /\ raw # None
                  /\ Unwrap(out).status \in {"hit", "stale"}
                  /\ (Unwrap(out).status = "hit"
                        <=> (age <= cache_ttl_ms /\ (vu = None \/ Unwrap(vu) > t))))
            /\ (raw # None /\ age > cache_ttl_ms /\ age < cache_ttl_ms + cache_stale_ms
                  => out # None /\ Unwrap(out).status = "stale")

\* A get of an entry past fresh_ttl and short of eviction, reported stale.
C8_Witness ==
    /\ probe.op = "get"
    /\ probe.raw # None
    /\ probe.at - Unwrap(probe.raw).inserted_at > cache_ttl_ms
    /\ probe.out # None
    /\ Unwrap(probe.out).status = "stale"

\* C9 as stated: at response time plan.policy_rev and the Config-Revision
\* header equal the engine's current policy revision and the
\* Catalog-Revision header its current catalog revision, reloads running
\* concurrently or not.
C9_RevisionsCurrent ==
    \A p \in OkResponders :
        /\ PlanOf(p).policy_rev = ObsOf(p).eng_policy_rev
        /\ RespOf(p).policy_revision = ObsOf(p).eng_policy_rev
        /\ RespOf(p).catalog_revision = ObsOf(p).eng_catalog_rev

\* C9 amended: plan.policy_rev and the Config-Revision header equal the
\* policy revision of the snapshot the call loaded, Catalog-Revision that of
\* its catalog snapshot; they are the engine's current revisions whenever no
\* reload has stored a new snapshot since the call loaded its own.
C9_RevisionsOfSnapshot ==
    \A p \in OkResponders :
        LET o == ObsOf(p)
        IN  /\ PlanOf(p).policy_rev = o.snap_policy_rev
            /\ RespOf(p).policy_revision = o.snap_policy_rev
            /\ RespOf(p).catalog_revision = o.snap_catalog_rev
            /\ (o.pol_current => o.snap_policy_rev = o.eng_policy_rev)
            /\ (o.cat_current => o.snap_catalog_rev = o.eng_catalog_rev)

\* A response served from the cache while a reload had already stored a
\* newer policy than the one the call loaded.
C9_Witness ==
    \E p \in OkResponders :
        /\ ~ObsOf(p).pol_current
        /\ RespOf(p).cache_status = "hit"
        /\ ObsOf(p).snap_policy_rev # ObsOf(p).eng_policy_rev

\* C10 as stated: two requests with identical fields except request_id and
\* no reload between them derive the same cache fingerprint, whatever
\* happened in between (time, feedback, other calls, expiry of the token).
Fingerprinted == {p \in Workers : IsSome(wk[p].fp) /\ IsSome(Unwrap(wk[p].fp).prev)}
FpCur(p) == Unwrap(wk[p].fp).cur
FpPrev(p) == Unwrap(Unwrap(wk[p].fp).prev)
NoReloadBetween(p) ==
    FpPrev(p).pgen = FpCur(p).pgen /\ FpPrev(p).cgen = FpCur(p).cgen

Signing == probe.op \in {"issue", "progress"}

RoundTrip ==
    Signing =>
        /\ verify(probe.token, probe.at) = probe.out
        /\ probe.token.claims = Unwrap(probe.out.val)
        /\ Unwrap(probe.out.val).turn = probe.turn
        /\ Unwrap(probe.out.val).expires_at > probe.at

C11_VerifyRejectsReached ==
    /\ RoundTrip
    /\ probe.op = "verify" =>
          probe.out = IF /\ probe.token \in hist.signed
                         /\ probe.token.claims.expires_at > probe.at
                      THEN Ok(probe.token.claims)
                      ELSE Err("INVALID_APPROVAL")

\* C11 as the code has it: the same, with a token rejected as expired only
\* once its expires_at lies in the past (expires_at < now); at the instant
\* expires_at itself the token still verifies.
C11_VerifyRejectsPast ==
    /\ RoundTrip
    /\ probe.op = "verify" =>
          probe.out = IF /\ probe.token \in hist.signed
                         /\ probe.token.claims.expires_at >= probe.at
                      THEN Ok(probe.token.claims)
                      ELSE Err("INVALID_APPROVAL")

C11_Witness ==
    /\ probe.op = "verify"
    /\ probe.token \in hist.signed
    /\ probe.token.claims.turn = 1
    /\ probe.token.claims.expires_at = probe.at
    /\ probe.out = Ok(probe.token.claims)

(***************************************************************************)
(* C12: a /route/plan request whose overrides.plan_token fails             *)
(* verification is answered with the error code INVALID_APPROVAL and no    *)
(* plan.                                                                   *)
(***************************************************************************)
C12_InvalidTokenRefused ==
    \A p \in Workers :
        /\ wk[p].pc = "done"
        /\ IsSome(wk[p].req.plan_token)
        /\ IsSome(wk[p].fp)
        /\ ~Unwrap(wk[p].fp).cur.tok_ok
        => /\ RespOf(p).kind = "err"
           /\ RespOf(p).code = "INVALID_APPROVAL"
           /\ RespOf(p).plan = None

(***************************************************************************)
(* C13: a request repeated (no reload, within the fresh TTL and the        *)
(* stickiness window) with a new request_id and the plan_token returned by *)
(* the previous response is served from the cache with status hit, the     *)
(* model of the previous response and route reason policy_lock, whichever  *)
(* model the first request selected.                                       *)
(***************************************************************************)
\* The request of p without its plan_token and request_id.
Tokenless(p) == [SameFields(wk[p].req) EXCEPT !.plan_token = None]

\* p has answered a repeat of the last token-less request of the same
\* fields, carrying the token which that request's response returned.
StickyRepeat(p) ==
    /\ wk[p].pc = "done"
    /\ IsSome(wk[p].fp)
    /\ IsSome(wk[p].req.plan_token)
    /\ FpCur(p).tok_ok
    /\ Tokenless(p) \in DOMAIN hist.fp
    /\ LET first == hist.fp[Tokenless(p)]
       IN  /\ first.rid = Unwrap(wk[p].req.plan_token).claims.token_id
           /\ first.pgen = FpCur(p).pgen
           /\ first.cgen = FpCur(p).cgen
           /\ FpCur(p).at < first.at + cache_ttl_ms

C13_StickyRepeatHits ==
    \A p \in Workers :
        StickyRepeat(p) =>
            /\ RespOf(p).kind = "ok"
            /\ RespOf(p).cache_status = "hit"
            /\ PlanOf(p).upstream.model_id =
                   Unwrap(wk[p].req.plan_token).claims.model_id
            /\ RespOf(p).route_reason = Some("policy_lock")

(***************************************************************************)
(* C14: under a policy whose stickiness max_turns or window_ms is zero no  *)
(* plan response carries a plan_token, and a plan_token presented in the   *)
(* request is ignored: the cache fingerprint has no token model in it, a   *)
(* computed plan takes the best scored candidate, and the route reason is  *)
(* not policy_lock.                                                        *)
(***************************************************************************)
StickinessOff ==
    {d.revision : d \in {x \in {PolA, PolB} :
        x.defaults.stickiness.max_turns = 0 \/ x.defaults.stickiness.window_ms = 0}}

C14_DisabledIgnoresToken ==
    \A p \in OkResponders :
        ObsOf(p).snap_policy_rev \in StickinessOff =>
            /\ PlanOf(p).stickiness.plan_token = None
            /\ IsSome(wk[p].req.plan_token) =>
                  /\ ObsOf(p).key[9] = 0
                  /\ RespOf(p).cache_status = "miss" =>
                         Some(PlanOf(p).upstream.model_id) = ObsOf(p).top
                  /\ RespOf(p).route_reason # Some("policy_lock")

(***************************************************************************)
(* C15: for a request carrying a valid plan_token, stickiness enabled, the *)
(* token of the response is newly signed and differs from the presented    *)
(* one: it is the progress of the claims (turn + 1, same max_turns, new    *)
(* expires_at) if claims.turn + 1 < claims.max_turns, and otherwise a      *)
(* newly issued token with turn 0.                                         *)
(***************************************************************************)
\* Responders to a request whose token verified, under a policy with
\* stickiness on.
TokenResponders ==
    {p \in OkResponders : /\ IsSome(ObsOf(p).sticky)
                          /\ ObsOf(p).snap_policy_rev \notin StickinessOff}

Presented(p) == Unwrap(ObsOf(p).sticky)
Returned(p) == Unwrap(PlanOf(p).stickiness.plan_token)

NewlySigned(p) ==
    /\ IsSome(PlanOf(p).stickiness.plan_token)
    /\ Returned(p) # Unwrap(wk[p].req.plan_token)
    /\ Returned(p).claims.token_id # Presented(p).token_id
    /\ Returned(p) = sign_claims(Returned(p).claims)

Progressed(p) ==
    Returned(p).claims =
        [Presented(p) EXCEPT !.turn = @ + 1,
                             !.expires_at = now + policy.doc.defaults.stickiness.window_ms,
                             !.token_id = Returned(p).claims.token_id]

Reissued(p) ==
    /\ Returned(p).claims.turn = 0
    /\ Returned(p).claims.alias = wk[p].req.alias
    /\ Returned(p).claims.model_id = PlanOf(p).upstream.model_id
    /\ Returned(p).claims.max_turns = policy.doc.defaults.stickiness.max_turns
    /\ Returned(p).claims.expires_at = now + policy.doc.defaults.stickiness.window_ms

C15_ProgressByTurnOnly ==
    \A p \in TokenResponders :
        /\ NewlySigned(p)
        /\ IF Presented(p).turn + 1 < Presented(p).max_turns
           THEN Progressed(p) ELSE Reissued(p)

\* C15 as the code has it: the claims are progressed only if, besides
\* turn + 1 < max_turns, they name the alias of the request and the model of
\* the plan being returned; in every other case a token with turn 0 is
\* issued for the model of the plan.
C15_ProgressIfSameModel ==
    \A p \in TokenResponders :
        /\ NewlySigned(p)
        /\ IF /\ Presented(p).alias = wk[p].req.alias
              /\ Presented(p).model_id = PlanOf(p).upstream.model_id
              /\ Presented(p).turn + 1 < Presented(p).max_turns
           THEN Progressed(p) ELSE Reissued(p)

C15_Witness ==
    \E p \in TokenResponders :
        /\ Presented(p).model_id = PlanOf(p).upstream.model_id
        /\ Presented(p).turn = 0
        /\ Returned(p).claims.turn = 1
        /\ RespOf(p).cache_status = "hit"

(***************************************************************************)
(* C16: escalation is first-match in the order teacher_boost > complexity  *)
(* > uncertainty > scpi policy_lock: the forced tier and the reason are    *)
(* those of the first trigger that applies, and when none applies no tier  *)
(* is forced and no reason is produced.                                    *)
(***************************************************************************)
\* The triggers, from the request and the settings alone.
BoostApplies == probe.req.teacher_boost = Some(TRUE)
LengthApplies ==
    /\ IsSome(probe.esc.token_len_over)
    /\ probe.in_tokens > Unwrap(probe.esc.token_len_over)
RegexApplies ==
    /\ IsSome(probe.esc.uncertainty_regex)
    /\ probe.req.summary = Some("unsure")
ScpiApplies ==
    /\ probe.esc.scpi_error_present = Some(TRUE)
    /\ probe.req.scpi_error_present = Some(TRUE)

FallbackTier == IF probe.esc.fallback_tier = Some("t1") THEN "T1" ELSE "T3"
BoostTier == IF probe.esc.teacher_boost_tier = Some("t2") THEN "T2" ELSE FallbackTier

C16_FirstMatch ==
    probe.op = "escalate" =>
        /\ (probe.out[2] = Some("teacher_boost")) = BoostApplies
        /\ (probe.out[2] = Some("complexity")) = (~BoostApplies /\ LengthApplies)
        /\ (probe.out[2] = Some("uncertainty")) =
               (~BoostApplies /\ ~LengthApplies /\ RegexApplies)
        /\ (probe.out[2] = Some("policy_lock")) =
               (~BoostApplies /\ ~LengthApplies /\ ~RegexApplies /\ ScpiApplies)
        /\ (probe.out[2] = None) =
               ~(BoostApplies \/ LengthApplies \/ RegexApplies \/ ScpiApplies)
        /\ probe.out[1] = IF probe.out[2] = None THEN None
                          ELSE IF probe.out[2] = Some("teacher_boost")
                          THEN Some(BoostTier) ELSE Some(FallbackTier)

C16_Witness ==
    /\ probe.op = "escalate"
    /\ BoostApplies /\ LengthApplies /\ RegexApplies /\ ScpiApplies
    /\ probe.out = <<Some("T2"), Some("teacher_boost")>>

(***************************************************************************)
(* C17: whenever a plan response reports the route reason complexity,      *)
(* uncertainty or teacher_boost, the model of the plan carries the policy  *)
(* tag of the forced tier (tier:<fallback_tier>, or for teacher_boost      *)
(* tier:<teacher_boost_tier>), whether the plan was computed or came from  *)
(* the cache.                                                              *)
(***************************************************************************)
\* The policy tags of a model id in the engine's catalog.
TagsOf(id) == catalog.models[Unwrap(catalog_index(catalog, id)) + 1].policy_tags

TierTagOf(reason) ==
    LET e == policy.doc.escalations
        fallback == IF IsSome(e.fallback_tier) THEN Unwrap(e.fallback_tier) ELSE "t3"
    IN  "tier:" \o (IF reason = "teacher_boost" /\ IsSome(e.teacher_boost_tier)
                    THEN Unwrap(e.teacher_boost_tier) ELSE fallback)

C17_EscalatedModelInTier ==
    \A p \in OkResponders :
        \A reason \in {"complexity", "uncertainty", "teacher_boost"} :
            RespOf(p).route_reason = Some(reason) =>
                \E i \in 1..Len(TagsOf(PlanOf(p).upstream.model_id)) :
                    eq_ignore_ascii_case(TagsOf(PlanOf(p).upstream.model_id)[i],
                                         TierTagOf(reason))

C17_Witness ==
    \E p \in OkResponders :
        /\ RespOf(p).cache_status \in {"hit", "stale"}
        /\ RespOf(p).route_reason = Some("complexity")
        /\ PlanOf(p).upstream.model_id = "m-premium"

(***************************************************************************)
(* C18: the first check of a key finds a full bucket of burst tokens;      *)
(* every check first adds elapsed x refill_per_sec tokens, clamped to      *)
(* burst, is allowed iff at least one token is then available, consumes    *)
(* exactly one if allowed and nothing if refused; every bucket's count     *)
(* stays within [0, burst].                                                *)
(***************************************************************************)
\* The tokens the last check found after its refill.
Available ==
    IF chk.last.before = None THEN rate_limit_burst
    ELSE Min(Unwrap(chk.last.before).tokens
                + Max(chk.last.at - Unwrap(chk.last.before).last_refill, 0)
                    * rate_limit_refill_per_sec,
             rate_limit_burst)

C18_CheckStep ==
    /\ chk.last.key # "" =>
          /\ chk.last.out.ok = (Available >= TokenOne)
          /\ chk.last.out.ok => Unwrap(chk.last.after).tokens = Available - TokenOne
          /\ ~chk.last.out.ok =>
                /\ Unwrap(chk.last.after).tokens = Available
                /\ chk.last.out = Err("POLICY_DENY")
    /\ \A k \in DOMAIN rate_limiter.buckets :
          /\ rate_limiter.buckets[k].tokens >= 0
          /\ rate_limiter.buckets[k].tokens <= rate_limit_burst

\* A check refused after a refill that did not reach one token.
C18_Witness ==
    /\ chk.last.key # ""
    /\ chk.last.before # None
    /\ chk.last.at > Unwrap(chk.last.before).last_refill
    /\ Unwrap(chk.last.after).tokens > Unwrap(chk.last.before).tokens
    /\ ~chk.last.out.ok

(***************************************************************************)
(* C19: under any interleaving of concurrent checks of one key, each       *)
(* reading the clock before it obtains the bucket, the allowed calls that  *)
(* lie in a time span (clock read and return both within it) number at     *)
(* most burst + refill_per_sec x span; and a check leaves the buckets of   *)
(* the other keys as they were.                                            *)
(***************************************************************************)
AllowedIn(key, s, e) ==
    Cardinality({i \in 1..Len(chk.log) : /\ chk.log[i].key = key
                                         /\ chk.log[i].read >= s
                                         /\ chk.log[i].done <= e})

C19_SpanBound ==
    /\ \A key \in RateKeys : \A s \in 0..now : \A e \in s..now :
          AllowedIn(key, s, e) * TokenOne
             <= rate_limit_burst + rate_limit_refill_per_sec * (e - s)
    /\ chk.last.others_after = chk.last.others

\* Two calls of one key overtook each other between clock and bucket, both
\* were allowed, and the other key has a bucket of its own.
C19_Witness ==
    /\ \E i, j \in 1..Len(chk.log) :
          /\ i < j
          /\ chk.log[i].key = chk.log[j].key
          /\ chk.log[j].read < chk.log[i].read
    /\ chk.last.others # EmptyMap

(***************************************************************************)
(* C20: after any sequence of feedback updates for a model (success or     *)
(* failure, any duration_ms including 0, any usage including zero tokens)  *)
(* the model's err_rate is within [0, 1] and its tokens_per_sec is > 0.    *)
(***************************************************************************)
C20_EwmaBounded ==
    \A m \in DOMAIN health :
        /\ health[m].err_rate >= 0
        /\ health[m].err_rate <= 1000
        /\ health[m].tokens_per_sec > 0

\* Zero-token feedback has worn tokens_per_sec down to where it stays,
\* failures have driven err_rate up to where it stays, and feedback with
\* duration 0 has been reported as well.
C20_Witness ==
    /\ probe.op = "feedback"
    /\ probe.odd > 0
    /\ DOMAIN health = {"m-cheap", "m-premium"}
    /\ health["m-cheap"].tokens_per_sec <= 2
    /\ health["m-premium"].err_rate >= 995

(***************************************************************************)
(* C21.  Updates of one model_id are atomic with respect to each other:    *)
(* whenever no update of a model is in progress its stats are those of     *)
(* applying every update begun so far one after the other, in the order    *)
(* the entry guards were taken (no update is lost), and a snapshot returns *)
(* the stats after a whole number of those updates, never a partly         *)
(* written entry.                                                          *)
(***************************************************************************)
RECURSIVE ApplyAll(_)
ApplyAll(order) ==
    IF order = <<>> THEN EmptyMap
    ELSE health_update(ApplyAll(SubSeq(order, 1, Len(order) - 1)), order[Len(order)])

C21_UpdatesAtomic ==
    probe.op = "blend" =>
       /\ \A m \in DOMAIN probe.guard :
             probe.guard[m] = 0 =>
                snapshot(health, m) = snapshot(ApplyAll(probe.order), m)
       /\ IsSome(probe.snap) =>
             LET s == Unwrap(probe.snap)
             IN  s.val = snapshot(ApplyAll(SubSeq(probe.order, 1, s.seen)), s.model_id)

\* Two updates of the same model have completed, the second one begun by
\* another thread, and a snapshot taken after both has seen their blend.
C21_Witness ==
    /\ probe.op = "blend"
    /\ Len(probe.order) >= 2
    /\ probe.order[1].model_id = "m-cheap"
    /\ probe.order[2].model_id = "m-cheap"
    /\ probe.order[1] # probe.order[2]
    /\ probe.guard["m-cheap"] = 0
    /\ IsSome(probe.snap)
    /\ Unwrap(probe.snap).model_id = "m-cheap"
    /\ Unwrap(probe.snap).seen >= 2
    /\ Unwrap(probe.snap).val # HealthStatsDefault

(***************************************************************************)
(* C22.  A reload that returns a validation error leaves the previous      *)
(* snapshot active: the compiled policy and catalog after the call are the *)
(* ones from before it, and they stay the engine's policy and catalog      *)
(* (whose revisions plan calls, /healthz and /policy read) until a reload  *)
(* that succeeds stores new ones.                                          *)
(***************************************************************************)
C22_FailedReloadKeepsSnapshot ==
    probe.op = "rejected" =>
       /\ ~probe.result.ok
       /\ probe.after = probe.before
       /\ (hist.pgen = probe.pgen /\ hist.cgen = probe.cgen) =>
             /\ policy = probe.before.policy
             /\ catalog = probe.before.catalog

\* A reload of CatB succeeded, a later reload was rejected, and the last
\* plan call was answered from the catalog of the reload that succeeded.
C22_Witness ==
    /\ probe.op = "rejected"
    /\ probe.before.catalog.revision = "cat-2"
    /\ hist.cgen = probe.cgen
    /\ wk[1].pc = "done"
    /\ wk[1].req.request_id = MaxCalls
    /\ Unwrap(wk[1].resp).kind = "ok"
    /\ Unwrap(wk[1].resp).catalog_revision = "cat-2"

(***************************************************************************)
(* C23.  In every plan call the candidate indices of the resolved alias    *)
(* refer, in the catalog snapshot the call uses, to existing models, and   *)
(* the ids of those models are, in order, the ids the policy document      *)
(* lists for the alias (those the catalog has), also while a catalog       *)
(* reload is running.                                                      *)
(***************************************************************************)
Snapshotted ==
    {p \in Workers : /\ IsSome(wk[p].pol)
                     /\ IsSome(wk[p].cat)
                     /\ wk[p].req.alias \in DOMAIN Unwrap(wk[p].pol).alias_map}

ListedIds(pol, cat, alias) ==
    SelectSeq(pol.doc.aliases[alias].candidates,
              LAMBDA id : IsSome(catalog_index(cat, id)))

C23_CandidatesResolve ==
    \A p \in Snapshotted :
       LET pol == Unwrap(wk[p].pol)
           cat == Unwrap(wk[p].cat)
           cands == pol.alias_map[wk[p].req.alias].candidates
       IN  /\ \A i \in 1..Len(cands) : cands[i] < Len(cat.models)
           /\ [i \in 1..Len(cands) |-> cat.models[cands[i] + 1].id]
                 = ListedIds(pol, cat, wk[p].req.alias)

(***************************************************************************)
(* C24.  When a plan is emitted, the policy revision in the request's      *)
(* cache key, the policy revision carried in the claims of the emitted     *)
(* stickiness token and plan.policy_rev are the same revision.             *)
(***************************************************************************)
KeyRevisionIsPlanRevision(p) == ObsOf(p).key[1] = PlanOf(p).policy_rev

C24_RevisionsAgree ==
    \A p \in OkResponders :
       /\ KeyRevisionIsPlanRevision(p)
       /\ IsSome(PlanOf(p).stickiness.plan_token) =>
             /\ "policy_rev" \in DOMAIN Returned(p).claims
             /\ Returned(p).claims.policy_rev = PlanOf(p).policy_rev

(***************************************************************************)
(* C25.  Every returned plan has overlay_size_bytes <= max_overlay_bytes,  *)
(* and a request whose overlay content, in the overlay snapshot of its     *)
(* call, is longer than defaults.max_overlay_bytes is answered with        *)
(* POLICY_DENY and no plan, also when the cache holds a plan for it.       *)
(***************************************************************************)
Answered == {p \in Workers : wk[p].pc = "done" /\ IsSome(wk[p].ovl)}

\* The overlay file the policy names for the request, in the call's snapshot.
OverlayFileOf(p) ==
    LET role == IF IsSome(wk[p].req.role) THEN Unwrap(wk[p].req.role) ELSE "default"
        id == IF role \in DOMAIN policy.doc.overlay_map[wk[p].req.alias]
              THEN policy.doc.overlay_map[wk[p].req.alias][role]
              ELSE policy.doc.overlay_defaults[role]
    IN  IF id \in DOMAIN Unwrap(wk[p].ovl).content
        THEN Some(Unwrap(wk[p].ovl).content[id]) ELSE None

TooLong(p) ==
    /\ IsSome(OverlayFileOf(p))
    /\ str_len(Unwrap(OverlayFileOf(p))) > policy.doc.defaults.max_overlay_bytes

C25_OverlayWithinLimit ==
    \A p \in Answered :
       /\ RespOf(p).kind = "ok" =>
             /\ Unwrap(PlanOf(p).prompt_overlays.overlay_size_bytes)
                   <= policy.doc.defaults.max_overlay_bytes
             /\ PlanOf(p).prompt_overlays.max_overlay_bytes
                   = Some(policy.doc.defaults.max_overlay_bytes)
             /\ PlanOf(p).prompt_overlays.system_overlay = OverlayFileOf(p)
       /\ TooLong(p) =>
             /\ RespOf(p).kind = "err"
             /\ RespOf(p).code = "POLICY_DENY"
             /\ RespOf(p).plan = None

\* A teacher's request was answered with a plan, which the cache still
\* holds; the overlay was reloaded with a longer file and the same request
\* was denied.
C25_Witness ==
    /\ wk[1].pc = "done"
    /\ IsSome(wk[1].ovl)
    /\ TooLong(1)
    /\ RespOf(1).code = "POLICY_DENY"
    /\ SameFields(wk[1].req) \in DOMAIN hist.fp
    /\ hist.fp[SameFields(wk[1].req)].key \in DOMAIN cache.inner

(***************************************************************************)
(* C26.  Every error is mapped to the envelope with a fixed code, status   *)
(* and retry_hint_ms: unknown alias ALIAS_UNKNOWN/404/0, unsupported       *)
(* schema UNSUPPORTED_SCHEMA/409/0 with the supported list, invalid        *)
(* request INVALID_REQUEST/400/0, rate-limit refusal and overlay violation *)
(* POLICY_DENY/409/0, zero survivors PLANNING_FAILED/500/60000.            *)
(* C26_EnvelopeNonEmptyRev adds that the envelope's policy_rev is never    *)
(* empty; C26_EnvelopeMapping that it is the revision string the handler   *)
(* read from the active policy before its checks.                          *)
(***************************************************************************)
ErrorAnswered == probe.op = "answered" /\ IsSome(probe.http) /\ Unwrap(probe.http).kind = "err"

Envelope == Unwrap(probe.http)

EnvelopeIs(code, status, hint) ==
    /\ ErrorAnswered
    /\ Envelope.body.code = code
    /\ Envelope.status = status
    /\ Envelope.body.retry_hint_ms = hint
    /\ Envelope.body.supported =
          IF code = "UNSUPPORTED_SCHEMA" THEN Some({"1.0", "1.1"}) ELSE None

\* The request reached engine.plan, and why that call must fail.
Planned == probe.op = "answered" /\ probe.cause = "none" /\ IsSome(probe.http)

AliasMissing == probe.req.alias \notin DOMAIN PolA.aliases

OverlayTooLong ==
    /\ ~AliasMissing
    /\ probe.req.role = Some("teacher")
    /\ probe.plan_rev = ""

NoSurvivor == ~AliasMissing /\ ~OverlayTooLong /\ probe.req.prompt_tokens = Some(9000)

CauseMapping ==
    /\ (probe.op = "answered" /\ probe.cause = "schema") =>
          EnvelopeIs("UNSUPPORTED_SCHEMA", 409, 0)
    /\ (probe.op = "answered" /\ probe.cause = "request_id") =>
          EnvelopeIs("INVALID_REQUEST", 400, 0)
    /\ (probe.op = "answered" /\ probe.cause = "rate") =>
          EnvelopeIs("POLICY_DENY", 409, 0)
    /\ (Planned /\ AliasMissing) => EnvelopeIs("ALIAS_UNKNOWN", 404, 0)
    /\ (Planned /\ OverlayTooLong) => EnvelopeIs("POLICY_DENY", 409, 0)
    /\ (Planned /\ NoSurvivor) => EnvelopeIs("PLANNING_FAILED", 500, 60000)
    /\ ErrorAnswered =>
          \/ probe.cause \in {"schema", "request_id", "rate"}
          \/ AliasMissing \/ OverlayTooLong \/ NoSurvivor

PlanAnswered == probe.op = "answered" /\ IsSome(probe.http) /\ Unwrap(probe.http).kind = "ok"

ContentLevelOf(req) ==
    IF IsSome(req.content_attestation) THEN Unwrap(req.content_attestation)
    ELSE IF req.privacy_mode = "features_only" THEN "none"
    ELSE IF req.privacy_mode = "summary" THEN "summary"
    ELSE "full"

C27_ContentUsedOfRequest ==
    PlanAnswered =>
       /\ Unwrap(probe.http).body.content_used = ContentLevelOf(probe.req)
       /\ Unwrap(probe.http).headers.X_Content_Used = ContentLevelOf(probe.req)

(***************************************************************************)
(* C28.  For every successful plan response, also one served from the plan *)
(* cache, the Router-Schema header and the body's schema_version are the   *)
(* schema_version of the request being answered.                           *)
(***************************************************************************)
C28_SchemaOfRequest ==
    PlanAnswered =>
       /\ probe.req.schema_version \in {"1.0", "1.1"}
       /\ Unwrap(probe.http).body.schema_version = probe.req.schema_version
       /\ Unwrap(probe.http).headers.Router_Schema = probe.req.schema_version

(***************************************************************************)
(* C29.  GET /catalog/models answers 304 exactly when If-None-Match is the *)
(* strong or the weak tag of the catalog revision active at the call, with *)
(* the ETag, X-Catalog-Weak and X-Catalog-Revision headers the 200 answer  *)
(* carries; every other value, the tag of a replaced revision among them,  *)
(* is answered 200 with the active document.                               *)
(***************************************************************************)
TagsOfRevision(revision) ==
    {Some("\"" \o revision \o "\""), Some("W/\"" \o revision \o "\"")}

C29_NotModifiedIffTagMatches ==
    probe.op = "catalog" =>
       LET rev == probe.active.revision
       IN  /\ probe.http.status = 304 <=> probe.if_none_match \in TagsOfRevision(rev)
           /\ probe.http.status \in {200, 304}
           /\ probe.http.headers.ETag = "\"" \o rev \o "\""
           /\ probe.http.headers.X_Catalog_Weak = "W/\"" \o rev \o "\""
           /\ probe.http.headers.X_Catalog_Revision = rev
           /\ probe.http.status = 200 =>
                 /\ IsSome(probe.http.body)
                 /\ Unwrap(probe.http.body).revision = rev
                 /\ compile_catalog(Unwrap(probe.http.body)) = Ok(probe.active)
           /\ probe.http.status = 304 => probe.http.body = None

\* After a reload replaced cat-1, the weak tag of cat-1 was answered 200
\* with the document of the new revision.
C29_Witness ==
    /\ probe.op = "catalog"
    /\ probe.if_none_match = Some("W/\"cat-1\"")
    /\ probe.active.revision # "cat-1"
    /\ probe.active = catalog
    /\ probe.http.status = 200
    /\ Unwrap(probe.http.body).revision = catalog.revision

(***************************************************************************)
(* C30.  Every computed plan lists at most 3 fallbacks, none of them the   *)
(* primary model and their model ids pairwise distinct, whatever candidate *)
(* list the policy holds for the alias.                                    *)
(***************************************************************************)
Computed == {p \in OkResponders : RespOf(p).cache_status = "miss"}

C30_FallbacksDistinct ==
    \A p \in Computed :
       LET f == PlanOf(p).fallbacks
       IN  /\ Len(f) <= 3
           /\ \A i \in 1..Len(f) : f[i] # PlanOf(p).upstream.model_id
           /\ \A i, j \in 1..Len(f) : i # j => f[i] # f[j]

(***************************************************************************)
(* C31 to C40.                                                             *)
(***************************************************************************)
\* What the miss path (engine.rs 339-381) returns for a request under the
\* engine's present policy, catalog and health: the primary and the reason.
MissOutcome(req, sticky) ==
    LET inp == plan_inputs(req, policy, catalog, sticky)
        scored == plan_candidates(req, policy, catalog, health, inp)
        chosen == IF scored.res.ok
                  THEN choose_primary(Unwrap(scored.res.val), sticky, req.alias)
                  ELSE None
    IN  IF chosen = None THEN None
        ELSE Some([model_id |-> Unwrap(chosen).model.id,
                   route_reason |-> miss_reason(sticky, req.alias,
                                                Unwrap(chosen).model.id,
                                                scored.base_reason)])

\* C31: with no reload, no feedback and no passing of time between the
\* requests, a plan served from the cache has the primary model and the
\* route reason that the uncached computation (filter, score, choose
\* primary, route reason) returns for the request it is served to.
C31_HitEqualsMiss ==
    \A p \in OkResponders :
       RespOf(p).cache_status # "miss" =>
          MissOutcome(wk[p].req, ObsOf(p).sticky)
             = Some([model_id |-> PlanOf(p).upstream.model_id,
                     route_reason |-> RespOf(p).route_reason])

\* The claims of the valid token a responder's request carried name the
\* model of the plan it was answered with.
TokenNamesPlanModel(p) ==
    /\ IsSome(ObsOf(p).sticky)
    /\ Unwrap(ObsOf(p).sticky).model_id = PlanOf(p).upstream.model_id

\* C32 as stated: if a request carries a valid plan_token and the primary
\* model of the returned plan equals claims.model_id, the route reason of
\* the response is policy_lock.
C32_LockReasonIfModelMatches ==
    \A p \in OkResponders :
       TokenNamesPlanModel(p) => RespOf(p).route_reason = Some("policy_lock")

\* C32 amended: if a request carries a valid plan_token with claims.alias
\* equal to the request's alias and the primary model of the returned plan
\* equals claims.model_id, the route reason of the response is policy_lock.
C32_LockReasonIfAliasAndModelMatch ==
    \A p \in OkResponders :
       (TokenNamesPlanModel(p) /\ Unwrap(ObsOf(p).sticky).alias = wk[p].req.alias)
          => RespOf(p).route_reason = Some("policy_lock")

\* A plan is computed (miss) for a request whose valid token names the
\* request's alias and the model chosen, and is reported as policy_lock.
C32_Witness ==
    \E p \in OkResponders :
       /\ RespOf(p).cache_status = "miss"
       /\ TokenNamesPlanModel(p)
       /\ Unwrap(ObsOf(p).sticky).alias = wk[p].req.alias
       /\ RespOf(p).route_reason = Some("policy_lock")

\* C33: every plan stored in the plan cache has an empty stickiness block
\* (no plan_token, no expires_at) and no cache.valid_until, and the token of
\* every response was signed for the request it answers: its token_id is
\* the one drawn during that call.
C33_CachedPlanHasNoToken ==
    /\ \A k \in DOMAIN cache.inner :
          /\ cache.inner[k].plan.stickiness = NoStickiness
          /\ cache.inner[k].plan.cache.valid_until = None
    /\ \A p \in OkResponders :
          IsSome(PlanOf(p).stickiness.plan_token) =>
             Unwrap(PlanOf(p).stickiness.plan_token).claims.token_id
                = wk[p].req.request_id

\* A response served from the cache carries a token while the plan it was
\* cloned from is still stored.
C33_Witness ==
    \E p \in OkResponders :
       /\ RespOf(p).cache_status = "hit"
       /\ IsSome(PlanOf(p).stickiness.plan_token)
       /\ IsSome(PlanOf(p).cache.valid_until)
       /\ ObsOf(p).key \in DOMAIN cache.inner

\* The workers whose call went past the cache lookup to the filter: the call
\* returned a computed plan or failed with PLANNING_FAILED.
Filtered ==
    {p \in Workers :
        /\ wk[p].pc = "done"
        /\ \/ RespOf(p).kind = "ok" /\ RespOf(p).cache_status = "miss"
           \/ RespOf(p).kind = "err" /\ RespOf(p).code = "PLANNING_FAILED"}

\* The ids that survive score_candidates for a request with the tier given.
Survivors(req, forced_tier) ==
    LET inp == plan_inputs(req, policy, catalog, None)
        res == score_candidates(
                  [req |-> req, alias |-> policy.alias_map[req.alias],
                   policy |-> policy.doc, catalog |-> catalog, health |-> health,
                   caps_mask |-> inp.caps_mask, in_tokens |-> inp.in_tokens,
                   out_tokens |-> inp.out_tokens, region_mask |-> inp.region_mask,
                   boost |-> inp.boost, forced_tier |-> forced_tier])
    IN  {Unwrap(res.val)[i].model.id : i \in 1..Len(Unwrap(res.val))}

ForcedTagOf(req) == plan_inputs(req, policy, catalog, None).forced_tag

\* C34: of the calls that reach the filter, one whose forced tier leaves no
\* survivor is answered from the survivors of the filter without the tier,
\* with no escalation reason (policy_lock only for a token that names the
\* plan's model), and fails with PLANNING_FAILED only if that retry leaves
\* none either; one with no forced tier fails with PLANNING_FAILED exactly
\* when the filter leaves no survivor; one whose forced tier has survivors
\* is answered from them.
C34_RetryWithoutTier ==
    \A p \in Filtered :
       LET req == wk[p].req
           forced == ForcedTagOf(req)
           first == Survivors(req, forced)
           retry == Survivors(req, None)
           failed == RespOf(p).kind = "err"
       IN  IF IsSome(forced) /\ first = {}
           THEN /\ failed <=> retry = {}
                /\ ~failed =>
                      /\ PlanOf(p).upstream.model_id \in retry
                      /\ \/ RespOf(p).route_reason = None
                         \/ /\ RespOf(p).route_reason = Some("policy_lock")
                            /\ TokenNamesPlanModel(p)
           ELSE /\ failed <=> first = {}
                /\ ~failed => PlanOf(p).upstream.model_id \in first

\* A call whose forced tier left no survivor is answered from the retry
\* without the tier, with no reason.
C34_Witness ==
    \E p \in Filtered :
       /\ IsSome(ForcedTagOf(wk[p].req))
       /\ Survivors(wk[p].req, ForcedTagOf(wk[p].req)) = {}
       /\ Survivors(wk[p].req, None) # {}
       /\ RespOf(p).kind = "ok"
       /\ RespOf(p).route_reason = None

Scored == probe.op = "scored" /\ probe.out.ok

Ranking == Unwrap(probe.out.val)

\* The catalog index of a model id, and its place in the alias rule's list.
CatalogIndexOf(id) == Unwrap(catalog_index(Unwrap(probe.catalog), id))

ListPlaceOf(id) == CHOOSE i \in 1..Len(probe.ids) : probe.ids[i] = id

DescendingScore ==
    \A i, j \in 1..Len(Ranking) : i < j => Ranking[i].score >= Ranking[j].score

PrimaryIsFirst ==
    Ranking # <<>> =>
       choose_primary(Ranking, None, probe.req.alias) = Some(Ranking[1])

\* C35 as stated: survivors are ordered by descending score, and among
\* survivors of equal score the one with the lower catalog index ranks
\* first and, absent a sticky match, becomes the primary.
C35_TiesByCatalogIndex ==
    Scored =>
       /\ DescendingScore
       /\ PrimaryIsFirst
       /\ \A i, j \in 1..Len(Ranking) :
             (i < j /\ Ranking[i].score = Ranking[j].score)
                => CatalogIndexOf(Ranking[i].model.id)
                      < CatalogIndexOf(Ranking[j].model.id)

\* C35 amended: survivors are ordered by descending score, and among
\* survivors of equal score the one listed earlier in the alias rule's
\* candidates ranks first and, absent a sticky match, becomes the primary.
C35_TiesByListOrder ==
    Scored =>
       /\ DescendingScore
       /\ PrimaryIsFirst
       /\ \A i, j \in 1..Len(Ranking) :
             (i < j /\ Ranking[i].score = Ranking[j].score)
                => ListPlaceOf(Ranking[i].model.id)
                      < ListPlaceOf(Ranking[j].model.id)

\* Two survivors of equal score are ranked first, in the order of the alias
\* rule, which is the reverse of their order in the catalog.
C35_Witness ==
    /\ Scored
    /\ Len(Ranking) >= 2
    /\ Ranking[1].score = Ranking[2].score
    /\ ListPlaceOf(Ranking[1].model.id) < ListPlaceOf(Ranking[2].model.id)
    /\ CatalogIndexOf(Ranking[1].model.id) > CatalogIndexOf(Ranking[2].model.id)

\* No reload call is running, and both kinds have run.
ReloadsCompleted ==
    /\ \A a \in Admins : adm[a].pc = "idle"
    /\ probe.op = "reloaded"
    /\ hist.cgen > 0

\* C36: once the concurrently running reload_policy and reload_catalog
\* calls have completed, every alias candidate index of the active policy
\* lies within the active catalog and refers there to the model id the
\* policy document names at that place, among its ids the catalog knows.
C36_PolicyCompiledAgainstCatalog ==
    ReloadsCompleted =>
       \A alias \in DOMAIN policy.alias_map :
          LET cands == policy.alias_map[alias].candidates
          IN  /\ \A i \in 1..Len(cands) : cands[i] < Len(catalog.models)
              /\ [i \in 1..Len(cands) |-> catalog.models[cands[i] + 1].id]
                    = ListedIds(policy, catalog, alias)

\* C37: for a request that sets off no scpi escalation, a response reports
\* route reason policy_lock only if the request carried a valid plan_token
\* with claims.alias equal to the request's alias and claims.model_id equal
\* to the returned plan's upstream.model_id, on the miss path and on the
\* cache hit path.
C37_LockReasonOnlyIfTokenMatches ==
    \A p \in OkResponders :
       (/\ wk[p].req.scpi_error_present = None
        /\ RespOf(p).route_reason = Some("policy_lock"))
          => /\ TokenNamesPlanModel(p)
             /\ Unwrap(ObsOf(p).sticky).alias = wk[p].req.alias

\* The claims of the token a response carries.
EmittedClaims(p) == Unwrap(PlanOf(p).stickiness.plan_token).claims

\* C38: every plan_token emitted in a response has claims with alias equal
\* to the request's alias, model_id equal to the response plan's
\* upstream.model_id, and turn < max_turns, after any sequence of issue and
\* progress steps across requests.
C38_EmittedClaimsMatch ==
    \A p \in OkResponders :
       IsSome(PlanOf(p).stickiness.plan_token) =>
          /\ EmittedClaims(p).alias = wk[p].req.alias
          /\ EmittedClaims(p).model_id = PlanOf(p).upstream.model_id
          /\ EmittedClaims(p).turn < EmittedClaims(p).max_turns
          /\ EmittedClaims(p).turn <= 255

\* A response carries a token that was progressed from the one presented.
C38_Witness ==
    \E p \in OkResponders :
       /\ IsSome(PlanOf(p).stickiness.plan_token)
       /\ IsSome(ObsOf(p).sticky)
       /\ EmittedClaims(p).turn = Unwrap(ObsOf(p).sticky).turn + 1
       /\ EmittedClaims(p).alias = wk[p].req.alias

\* C39: no two successful /route/plan responses, whether computed or served
\* from the plan cache, carry the same route_id.
C39_RouteIdFresh ==
    \A p, q \in OkResponders :
       p # q => PlanOf(p).route_id # PlanOf(q).route_id

\* The calls that have returned and whose beginning probe recorded.
Framed ==
    {p \in Workers : /\ wk[p].pc = "done"
                     /\ probe.op = "frame"
                     /\ probe.rid = wk[p].req.request_id}

AliasKnown(p) == wk[p].req.alias \in DOMAIN policy.alias_map

\* C40: a plan call that returns an error leaves the plan cache, the
\* metrics counters (total_requests, cache_hits, model_share) and the
\* health store exactly as they were before the call; a call for an unknown
\* alias and a call whose overlay is over the size limit are such calls.
C40_ErrorLeavesEngineAlone ==
    \A p \in Framed :
       (\/ RespOf(p).kind = "err"
        \/ ~AliasKnown(p)
        \/ AliasKnown(p) /\ TooLong(p))
          => /\ RespOf(p).kind = "err"
             /\ cache = probe.cache
             /\ metrics = probe.metrics
             /\ health = probe.health

\* A call failed with PLANNING_FAILED after an earlier call had left a plan
\* in the cache and counts in the metrics.
C40_Witness ==
    \E p \in Framed :
       /\ RespOf(p).kind = "err"
       /\ RespOf(p).code = "PLANNING_FAILED"
       /\ cache.inner # EmptyMap
       /\ metrics.total_requests # EmptyMap
       /\ cache = probe.cache
       /\ metrics = probe.metrics

====
